---- MODULE Spec2Model ----
(***************************************************************************)
(* The StrPattern derive of surreal-error-parser/str-pattern-macro and the *)
(* from_string function it generates.  Text is a sequence of one-character *)
(* strings.  The derive turns the str_pattern template of every variant    *)
(* into the source of a regular expression; a lazily built static vector   *)
(* compiles the sources; from_string searches the vector in order.         *)
(* Further down, QueryOptions::build of surrealdb-query-builder, which     *)
(* writes a SELECT statement and the map of its variables.                 *)
(***************************************************************************)
EXTENDS Integers, Sequences, FiniteSets, TLC

(***************************************************************************)
(* Characters                                                              *)
(***************************************************************************)
Digits == {"0", "1", "2", "3", "4", "5", "6", "7", "8", "9"}

Letters ==
  {"a", "b", "c", "d", "e", "f", "g", "h", "i", "j", "k", "l", "m",
   "n", "o", "p", "q", "r", "s", "t", "u", "v", "w", "x", "y", "z",
   "A", "B", "C", "D", "E", "F", "G", "H", "I", "J", "K", "L", "M",
   "N", "O", "P", "Q", "R", "S", "T", "U", "V", "W", "X", "Y", "Z"}

\* \w of the regex crate, restricted to the characters of the model
WordChars == Letters \cup Digits \cup {"_"}

\* regex_syntax::is_meta_character, the characters regex::escape prefixes
MetaChars ==
  {"\\", ".", "+", "*", "?", "(", ")", "|", "[", "]", "{", "}",
   "^", "$", "#", "&", "-", "~"}

\* the grave accent (U+0060) of the templates, which a TLA+ string cannot hold
Backtick == "U+0060"

\* the least k in lo..hi with P(k), hi + 1 when there is none
First(lo, hi, P(_)) ==
  IF \E k \in lo..hi : P(k)
  THEN CHOOSE k \in lo..hi : P(k) /\ \A m \in lo..(k - 1) : ~P(m)
  ELSE hi + 1

\* the greatest k in lo..hi with P(k), lo - 1 when there is none
Last(lo, hi, P(_)) ==
  IF \E k \in lo..hi : P(k)
  THEN CHOOSE k \in lo..hi : P(k) /\ \A m \in (k + 1)..hi : ~P(m)
  ELSE lo - 1

(***************************************************************************)
(* impl_enum: from a template to the source of a regular expression        *)
(***************************************************************************)
\* an escape that leaves the dot as it is
RECURSIVE escape_but_dot(_)
escape_but_dot(s) ==
  IF Len(s) = 0 THEN <<>>
  ELSE IF Len(s) = 1
    THEN (IF s[1] \in MetaChars \ {"."} THEN <<"\\", s[1]>> ELSE s)
  ELSE escape_but_dot(SubSeq(s, 1, Len(s) \div 2))
       \o escape_but_dot(SubSeq(s, Len(s) \div 2 + 1, Len(s)))

\* regex::escape(&attribute.parse_args::<syn::LitStr>()?.value()): every
\* meta character gets a backslash in front (the text is split in halves
\* only to keep the evaluation shallow)
RECURSIVE escape(_)
escape(s) ==
  IF Len(s) = 0 THEN <<>>
  ELSE IF Len(s) = 1
    THEN (IF s[1] \in MetaChars THEN <<"\\", s[1]>> ELSE s)
  ELSE escape(SubSeq(s, 1, Len(s) \div 2))
       \o escape(SubSeq(s, Len(s) \div 2 + 1, Len(s)))

\* the greedy \w+ of str_pattern_regex: the first index at or after j that
\* holds no word character
WordRunEnd(e, j) == First(j, Len(e), LAMBDA k : e[k] \notin WordChars)

\* a placeholder expression that takes anything up to the next closing
\* brace, nothing included, for the token
str_pattern_regex_any(e, i) ==
  IF i + 1 <= Len(e) /\ e[i] = "\\" /\ e[i + 1] = "{"
  THEN LET j == First(i + 2, Len(e),
                      LAMBDA k : k + 1 <= Len(e) /\ e[k] = "\\" /\ e[k + 1] = "}")
       IN  IF j + 1 <= Len(e) THEN j + 2 ELSE 0
  ELSE 0

\* str_pattern_regex = \\\{\w+\\\} tried at index i of the escaped text:
\* the index after the match, 0 when there is no match at i
str_pattern_regex(e, i) ==
  IF i + 1 <= Len(e) /\ e[i] = "\\" /\ e[i + 1] = "{"
  THEN LET j == WordRunEnd(e, i + 2)
       IN  IF j > i + 2 /\ j + 1 <= Len(e) /\ e[j] = "\\" /\ e[j + 1] = "}"
           THEN j + 2 ELSE 0
  ELSE 0

\* the start of the leftmost match of str_pattern_regex at or after i
NextMatch(e, i) == First(i, Len(e), LAMBDA k : str_pattern_regex(e, k) # 0)

\* captures_iter: the non-overlapping matches, left to right, from index i
RECURSIVE captures_iter(_, _)
captures_iter(e, i) ==
  LET k == NextMatch(e, i)
  IN  IF k > Len(e) THEN <<>>
      ELSE <<SubSeq(e, k, str_pattern_regex(e, k) - 1)>>
           \o captures_iter(e, str_pattern_regex(e, k))

\* m.as_str().split_at(2).1.split_at(m.as_str().len() - 4).0
strip_brackets(m) == SubSeq(SubSeq(m, 3, Len(m)), 1, Len(m) - 4)

\* the `captures` vector of impl_enum
captures_of(str_value) ==
  LET ms == captures_iter(str_value, 1)
  IN  [k \in 1..Len(ms) |-> strip_brackets(ms[k])]

\* str::parse::<usize>: -1 for Err, the number otherwise
RECURSIVE parse_usize_acc(_, _)
parse_usize_acc(s, acc) ==
  IF s = <<>> THEN acc
  ELSE IF Head(s) \notin Digits THEN -1
  ELSE parse_usize_acc(Tail(s),
         acc * 10 + (CHOOSE d \in 0..9 : ToString(d) = Head(s)))

parse_usize(s) == IF s = <<>> THEN -1 ELSE parse_usize_acc(s, 0)

\* a validate_unit that lets every template through
validate_unit_unchecked(captures) == "Ok"

\* validate_unit
validate_unit(captures) ==
  IF Len(captures) # 0 THEN "unit variant cannot have template vars" ELSE "Ok"

\* a validate_unnamed whose range test lets the index n through
validate_unnamed_index_n(captures, fields) ==
  IF Len(captures) # fields.n
    THEN "unnamed variant has a different number of template vars and fields"
  ELSE IF \E k \in 1..Len(captures) : captures[k] = <<>>
    THEN "template vars cannot be empty"
  ELSE IF \E k \in 1..Len(captures) : parse_usize(captures[k]) = -1
    THEN "template vars in tuple variants must be valid indices"
  ELSE IF \E k \in 1..Len(captures) : parse_usize(captures[k]) > fields.n
    THEN "template var is out of bounds for tuple"
  ELSE "Ok"

\* validate_unnamed
validate_unnamed(captures, fields) ==
  IF Len(captures) # fields.n
    THEN "unnamed variant has a different number of template vars and fields"
  ELSE IF \E k \in 1..Len(captures) : captures[k] = <<>>
    THEN "template vars cannot be empty"
  ELSE IF \E k \in 1..Len(captures) : parse_usize(captures[k]) = -1
    THEN "template vars in tuple variants must be valid indices"
  ELSE IF \E k \in 1..Len(captures) : parse_usize(captures[k]) >= fields.n
    THEN "template var is out of bounds for tuple"
  ELSE "Ok"

\* a validate_named that looks for unknown names only
validate_named_unknown_only(captures, fields) ==
  LET invalid == {c \in 1..Len(captures) :
                    ~ \E k \in 1..Len(fields.names) : fields.names[k] = captures[c]}
  IN  IF Cardinality(invalid) > 0
      THEN "missing template variable or unknown field name" ELSE "Ok"

\* validate_named
validate_named(captures, fields) ==
  LET missing == {k \in 1..Len(fields.names) :
                    ~ \E c \in 1..Len(captures) : captures[c] = fields.names[k]}
      invalid == {c \in 1..Len(captures) :
                    ~ \E k \in 1..Len(fields.names) : fields.names[k] = captures[c]}
  IN  IF Cardinality(invalid) + Cardinality(missing) > 0
      THEN "missing template variable or unknown field name" ELSE "Ok"

\* format!(r"(?<_{}>.*)", ident)
unnamed_group(ident) == <<"(", "?", "<", "_">> \o ident \o <<">", ".", "*", ")">>

\* format!(r"(?<{}>.*)", ident)
named_group(ident) == <<"(", "?", "<">> \o ident \o <<">", ".", "*", ")">>

\* replace_all of the Unnamed arm, from index i of the escaped text
RECURSIVE replace_all_unnamed(_, _)
replace_all_unnamed(e, i) ==
  LET k == NextMatch(e, i)
      n == str_pattern_regex(e, k)
  IN  IF k > Len(e) THEN SubSeq(e, i, Len(e))
      ELSE SubSeq(e, i, k - 1)
           \o unnamed_group(strip_brackets(SubSeq(e, k, n - 1)))
           \o replace_all_unnamed(e, n)

\* a replace_all that makes a group of every placeholder
RECURSIVE replace_all_named_every(_, _, _)
replace_all_named_every(e, i, capture_groups) ==
  LET k == NextMatch(e, i)
      n == str_pattern_regex(e, k)
      ident == strip_brackets(SubSeq(e, k, n - 1))
  IN  IF k > Len(e) THEN SubSeq(e, i, Len(e))
      ELSE SubSeq(e, i, k - 1) \o named_group(ident)
           \o replace_all_named_every(e, n, Append(capture_groups, ident))

\* replace_all of the Named arm; capture_groups is the closure's vector
RECURSIVE replace_all_named(_, _, _)
replace_all_named(e, i, capture_groups) ==
  LET k == NextMatch(e, i)
      n == str_pattern_regex(e, k)
      ident == strip_brackets(SubSeq(e, k, n - 1))
  IN  IF k > Len(e) THEN SubSeq(e, i, Len(e))
      ELSE IF \E g \in 1..Len(capture_groups) : capture_groups[g] = ident
        THEN SubSeq(e, i, k - 1) \o <<".", "*">>
             \o replace_all_named(e, n, capture_groups)
      ELSE SubSeq(e, i, k - 1) \o named_group(ident)
           \o replace_all_named(e, n, Append(capture_groups, ident))

\* field shapes: syn::Fields::Unit, Unnamed (n fields), Named (the idents)
Unit == [kind |-> "Unit", n |-> 0, names |-> <<>>]
Unnamed(n) == [kind |-> "Unnamed", n |-> n, names |-> <<>>]
Named(names) == [kind |-> "Named", n |-> Len(names), names |-> names]

\* one iteration of the loop of impl_enum: validation, then the regex source
\* pushed to `regexes` and the names the match arm reads from `caps`
\* (format!("_{}", i) is one digit for the tuples of the model)
impl_variant(variant) ==
  LET str_value == escape(variant.tpl)
      captures  == captures_of(str_value)
      err == CASE variant.fields.kind = "Unit" -> validate_unit(captures)
               [] variant.fields.kind = "Unnamed" ->
                    validate_unnamed(captures, variant.fields)
               [] OTHER -> validate_named(captures, variant.fields)
  IN  [err   |-> err,
       regex |-> CASE variant.fields.kind = "Unit" -> str_value
                   [] variant.fields.kind = "Unnamed" ->
                        replace_all_unnamed(str_value, 1)
                   [] OTHER -> replace_all_named(str_value, 1, <<>>),
       ident |-> variant.ident,
       arm   |-> CASE variant.fields.kind = "Unit" -> <<>>
                   [] variant.fields.kind = "Unnamed" ->
                        [k \in 1..variant.fields.n |-> <<"_", ToString(k - 1)>>]
                   [] OTHER -> variant.fields.names]

\* impl_enum: Err at the first variant that fails validation, otherwise the
\* match arms and regex sources in declaration order
impl_enum(variants) ==
  LET out == [i \in 1..Len(variants) |-> impl_variant(variants[i])]
  IN  IF \E i \in 1..Len(variants) : out[i].err # "Ok"
      THEN [ok |-> FALSE, arms |-> <<>>]
      ELSE [ok |-> TRUE,
            arms |-> [i \in 1..Len(variants) |->
                        [ident |-> out[i].ident, regex |-> out[i].regex,
                         fields |-> out[i].arm]]]

(***************************************************************************)
(* The regex crate: Regex::new, is_match, captures                         *)
(***************************************************************************)
\* a compiled expression is a sequence of literal runs, named groups
\* (?<name>.*), bare .* and single dots
Lit(s) == [t |-> "lit", s |-> s, name |-> <<>>]
Cap(name) == [t |-> "cap", s |-> <<>>, name |-> name]
Wild == [t |-> "any", s |-> <<>>, name |-> <<>>]
Dot == [t |-> "dot", s |-> <<>>, name |-> <<>>]
Bad == [t |-> "err", s |-> <<>>, name |-> <<>>]

\* the character at i is the second character of an escape sequence
RECURSIVE Escaped(_, _)
Escaped(src, i) == i > 1 /\ src[i - 1] = "\\" /\ ~Escaped(src, i - 1)

\* the meta characters that are not literal when they stand unescaped
SyntaxChars == MetaChars \ {"#", "&", "-", "~"}

\* a stretch of escaped literal text is well formed: a backslash escapes a
\* meta character, and no character of the syntax stands unescaped
LiteralOk(seg) ==
  \A p \in 1..Len(seg) :
    IF Escaped(seg, p) THEN seg[p] \in MetaChars
    ELSE IF seg[p] = "\\" THEN p < Len(seg)
    ELSE seg[p] \notin SyntaxChars

\* the characters a well-formed stretch matches: the escaping backslashes
\* dropped (split between escape sequences, to keep the evaluation shallow)
RECURSIVE unescape(_)
unescape(s) ==
  IF Len(s) <= 1 THEN s
  ELSE IF Len(s) = 2 /\ s[1] = "\\" THEN <<s[2]>>
  ELSE LET m == Len(s) \div 2
           h == IF Escaped(s, m + 1) THEN m + 1 ELSE m
       IN  unescape(SubSeq(s, 1, h)) \o unescape(SubSeq(s, h + 1, Len(s)))

literal(seg) == IF LiteralOk(seg) THEN Lit(unescape(seg)) ELSE Bad

\* a capture name: a letter or underscore, then word characters
ValidName(name) ==
  /\ name # <<>>
  /\ name[1] \in Letters \cup {"_"}
  /\ \A k \in 1..Len(name) : name[k] \in WordChars

\* the parser of Regex::new on the syntax impl_enum emits, from index i:
\* escaped literal text, named groups (?<name>.*) and bare .*
RECURSIVE regex_parse(_, _)
regex_parse(src, i) ==
  LET k == First(i, Len(src),
                 LAMBDA p : src[p] \in {"(", "."} /\ ~Escaped(src, p))
      lit == IF k > i THEN <<literal(SubSeq(src, i, k - 1))>> ELSE <<>>
      j == First(k + 3, Len(src), LAMBDA p : src[p] = ">")
  IN  IF k > Len(src) THEN lit
      ELSE IF src[k] = "."
        THEN IF k + 1 <= Len(src) /\ src[k + 1] = "*"
             THEN lit \o <<Wild>> \o regex_parse(src, k + 2)
             ELSE lit \o <<Dot>> \o regex_parse(src, k + 1)
      ELSE IF /\ j + 3 <= Len(src)
              /\ src[k + 1] = "?" /\ src[k + 2] = "<"
              /\ ValidName(SubSeq(src, k + 3, j - 1))
              /\ src[j + 1] = "." /\ src[j + 2] = "*" /\ src[j + 3] = ")"
        THEN lit \o <<Cap(SubSeq(src, k + 3, j - 1))>> \o regex_parse(src, j + 4)
      ELSE lit \o <<Bad>>

\* Regex::new: Err on a syntax error and on a duplicate capture group name
regex_new(src) ==
  LET items == regex_parse(src, 1)
  IN  IF \/ \E k \in 1..Len(items) : items[k].t = "err"
         \/ \E k, l \in 1..Len(items) :
              k < l /\ items[k].t = "cap" /\ items[l].t = "cap"
                    /\ items[k].name = items[l].name
      THEN [ok |-> FALSE, items |-> <<>>]
      ELSE [ok |-> TRUE, items |-> items]

NoMatch == [ok |-> FALSE, caps |-> <<>>]

\* the literal run s stands in text at index p
LitAt(text, p, s) ==
  /\ p + Len(s) - 1 <= Len(text)
  /\ \A k \in 1..Len(s) : text[p + k - 1] = s[k]

\* `.` matches every character but the line feed: the index after the
\* longest run of such characters from p
DotRunEnd(text, p) == First(p, Len(text), LAMBDA k : text[k] = "\n")

\* items k.. of re against text from index p, with the priorities of the
\* regex crate: a greedy .* takes the longest span the rest can follow
RECURSIVE match_from(_, _, _, _)
match_from(re, k, text, p) ==
  IF k > Len(re) THEN [ok |-> TRUE, caps |-> <<>>]
  ELSE IF re[k].t = "lit"
    THEN IF LitAt(text, p, re[k].s)
         THEN match_from(re, k + 1, text, p + Len(re[k].s)) ELSE NoMatch
  ELSE IF re[k].t = "dot"
    THEN IF p <= Len(text) /\ text[p] # "\n"
         THEN match_from(re, k + 1, text, p + 1) ELSE NoMatch
  ELSE LET q == Last(p, DotRunEnd(text, p),
                     LAMBDA r : match_from(re, k + 1, text, r).ok)
           rest == match_from(re, k + 1, text, q)
       IN  IF q < p THEN NoMatch
           ELSE [ok |-> TRUE,
                 caps |-> IF re[k].t = "cap"
                          THEN <<[name |-> re[k].name,
                                  val |-> SubSeq(text, p, q - 1)]>> \o rest.caps
                          ELSE rest.caps]

\* Regex::captures: the leftmost match; nothing anchors the search, so
\* every start index is tried
captures(re, text) ==
  LET p == First(1, Len(text) + 1, LAMBDA s : match_from(re, 1, text, s).ok)
  IN  IF p > Len(text) + 1 THEN NoMatch ELSE match_from(re, 1, text, p)

\* Regex::is_match
is_match(re, text) == captures(re, text).ok

\* caps[name]: the text of the group of that name; the index panics when
\* the regex has no such group
HasGroup(caps, name) == \E k \in 1..Len(caps) : caps[k].name = name
Group(caps, name) ==
  caps[CHOOSE k \in 1..Len(caps) : caps[k].name = name].val

(***************************************************************************)
(* The generated code: the lazy static and from_string                     *)
(***************************************************************************)
None == [kind |-> "None", variant |-> "", fields |-> <<>>]
Some(variant, fields) == [kind |-> "Some", variant |-> variant, fields |-> fields]
Panic == [kind |-> "Panic", variant |-> "", fields |-> <<>>]

\* a closure that fills the vector from the last regex to the first
lazy_force_reversed(arms) ==
  LET vec == [i \in 1..Len(arms) |-> regex_new(arms[Len(arms) + 1 - i].regex)]
  IN  IF \E i \in 1..Len(arms) : ~vec[i].ok
      THEN [state |-> "poisoned", vec |-> <<>>]
      ELSE [state |-> "ready", vec |-> [i \in 1..Len(arms) |-> vec[i].items]]

\* Lazy::new(|| vec![ Regex::new(..).unwrap(), .. ]) forced on first use
lazy_force(arms) ==
  LET vec == [i \in 1..Len(arms) |-> regex_new(arms[i].regex)]
  IN  IF \E i \in 1..Len(arms) : ~vec[i].ok
      THEN [state |-> "poisoned", vec |-> <<>>]
      ELSE [state |-> "ready", vec |-> [i \in 1..Len(arms) |-> vec[i].items]]

\* a from_string that hands the groups to the fields in the order the
\* groups stand in the pattern
from_string_positional(arms, vec, string) ==
  LET hits == {i \in 1..Len(vec) : is_match(vec[i], string)}
  IN  IF hits = {} THEN None
      ELSE LET i == CHOOSE h \in hits : \A g \in hits : h <= g
               caps == captures(vec[i], string).caps
           IN  IF Len(caps) >= Len(arms[i].fields)
               THEN Some(arms[i].ident,
                         [f \in 1..Len(arms[i].fields) |-> caps[f].val])
               ELSE Panic

\* a from_string that answers with the last pattern that matches
from_string_last_match(arms, vec, string) ==
  LET hits == {i \in 1..Len(vec) : is_match(vec[i], string)}
  IN  IF hits = {} THEN None
      ELSE LET i == CHOOSE h \in hits : \A g \in hits : h >= g
               caps == captures(vec[i], string).caps
           IN  IF \A f \in 1..Len(arms[i].fields) : HasGroup(caps, arms[i].fields[f])
               THEN Some(arms[i].ident,
                         [f \in 1..Len(arms[i].fields) |-> Group(caps, arms[i].fields[f])])
               ELSE Panic

\* a from_string that unwraps the first match
from_string_unwrap(arms, vec, string) ==
  LET hits == {i \in 1..Len(vec) : is_match(vec[i], string)}
  IN  IF hits = {} THEN Panic
      ELSE LET i == CHOOSE h \in hits : \A g \in hits : h <= g
               caps == captures(vec[i], string).caps
           IN  IF \A f \in 1..Len(arms[i].fields) : HasGroup(caps, arms[i].fields[f])
               THEN Some(arms[i].ident,
                         [f \in 1..Len(arms[i].fields) |-> Group(caps, arms[i].fields[f])])
               ELSE Panic

\* the loop of from_string over a built vector: the first pattern that
\* is_match finds in the text decides; its arm reads caps[name] per field
from_string(arms, vec, string) ==
  LET hits == {i \in 1..Len(vec) : is_match(vec[i], string)}
  IN  IF hits = {} THEN None
      ELSE LET i == CHOOSE h \in hits : \A g \in hits : h <= g
               caps == captures(vec[i], string).caps
           IN  IF \A f \in 1..Len(arms[i].fields) : HasGroup(caps, arms[i].fields[f])
               THEN Some(arms[i].ident,
                         [f \in 1..Len(arms[i].fields) |->
                            Group(caps, arms[i].fields[f])])
               ELSE Panic

(***************************************************************************)
(* Rendering a value to text, as the tests do with format!                 *)
(***************************************************************************)
\* the position of the field a placeholder token names: 0 when it names none
FieldOf(fields, token) ==
  IF fields.kind = "Unnamed"
  THEN IF parse_usize(token) >= 0 /\ parse_usize(token) < fields.n
       THEN parse_usize(token) + 1 ELSE 0
  ELSE IF \E k \in 1..Len(fields.names) : fields.names[k] = token
       THEN CHOOSE k \in 1..Len(fields.names) : fields.names[k] = token
       ELSE 0

\* the index after a placeholder {word} at index i of a template, 0 if none
PlaceholderAt(tpl, i) ==
  IF i <= Len(tpl) /\ tpl[i] = "{"
  THEN LET j == WordRunEnd(tpl, i + 1)
       IN  IF j > i + 1 /\ j <= Len(tpl) /\ tpl[j] = "}" THEN j + 1 ELSE 0
  ELSE 0

\* the start of the leftmost placeholder of a field at or after i
NextField(tpl, fields, i) ==
  First(i, Len(tpl),
        LAMBDA k : /\ PlaceholderAt(tpl, k) # 0
                   /\ FieldOf(fields, SubSeq(tpl, k + 1, PlaceholderAt(tpl, k) - 2)) # 0)

\* format!(template, fields..): every placeholder replaced by its field
RECURSIVE Render(_, _, _, _)
Render(tpl, fields, values, i) ==
  LET k == NextField(tpl, fields, i)
      n == PlaceholderAt(tpl, k)
  IN  IF k > Len(tpl) THEN SubSeq(tpl, i, Len(tpl))
      ELSE SubSeq(tpl, i, k - 1)
           \o values[FieldOf(fields, SubSeq(tpl, k + 1, n - 2))]
           \o Render(tpl, fields, values, n)

\* the placeholders from index i on that repeat a field already in `seen`
RECURSIVE LaterCount(_, _, _, _)
LaterCount(tpl, fields, i, seen) ==
  LET k == NextField(tpl, fields, i)
      n == PlaceholderAt(tpl, k)
      f == FieldOf(fields, SubSeq(tpl, k + 1, n - 2))
  IN  IF k > Len(tpl) THEN 0
      ELSE IF f \in seen THEN 1 + LaterCount(tpl, fields, n, seen)
      ELSE LaterCount(tpl, fields, n, seen \cup {f})

\* format! with an argument of its own for every repeated placeholder, as
\* tests::convert_to does with into_2: the first placeholder of a field gets
\* the field's value, the repeated ones get the texts of `later` in turn
RECURSIVE RenderEach(_, _, _, _, _, _)
RenderEach(tpl, fields, values, later, i, seen) ==
  LET k == NextField(tpl, fields, i)
      n == PlaceholderAt(tpl, k)
      f == FieldOf(fields, SubSeq(tpl, k + 1, n - 2))
  IN  IF k > Len(tpl) THEN SubSeq(tpl, i, Len(tpl))
      ELSE IF f \in seen
        THEN SubSeq(tpl, i, k - 1) \o Head(later)
             \o RenderEach(tpl, fields, values, Tail(later), n, seen)
      ELSE SubSeq(tpl, i, k - 1) \o values[f]
           \o RenderEach(tpl, fields, values, later, n, seen \cup {f})

(***************************************************************************)
(* Bounds and the inputs drawn from them                                   *)
(***************************************************************************)
\* pieces of template text in all the declarations of an enum
MaxPieces == 2
\* variants of an enum
MaxVariants == 2
\* characters of a text handed to from_string
MaxTextLen == 2
\* characters of a field value
MaxValueLen == 1
\* threads that call from_string concurrently
MaxThreads == 2

\* template text: a word character, a meta character, placeholders
Pieces ==
  { <<"a">>, <<".">>, <<"{", "0", "}">>, <<"{", "1", "}">>,
    <<"{", "0", "0", "}">>, <<"{", "x", "}">>, <<"{", "y", "}">> }

Shapes ==
  { Unit, Unnamed(1), Unnamed(2),
    Named(<< <<"x">> >>), Named(<< <<"x">>, <<"y">> >>) }

\* a character of the templates and one foreign to them
TextChars == {"a", "v"}
\* a character of the templates and the line feed
ValueChars == {"a", "\n"}

RECURSIVE Strings(_, _)
Strings(chars, n) ==
  IF n = 0 THEN {<<>>}
  ELSE Strings(chars, n - 1)
       \cup {<<c>> \o s : c \in chars, s \in {t \in Strings(chars, n - 1) : Len(t) = n - 1}}

Texts == Strings(TextChars, MaxTextLen)
Values == Strings(ValueChars, MaxValueLen)

\* the templates of exactly n pieces
RECURSIVE Templates(_)
Templates(n) ==
  IF n = 0 THEN {<<>>} ELSE {p \o t : p \in Pieces, t \in Templates(n - 1)}

(***************************************************************************)
(* The shipped enum: QueryError of surreal-error-parser, in declaration    *)
(* order, each variant with the source line of its str_pattern attribute   *)
(***************************************************************************)
QueryError ==
  <<
    \* 7: Ignore
    [ident |-> "Ignore",
     tpl |-> <<"C", "o", "n", "d", "i", "t", "i", "o", "n", "a", "l", " ", "c",
              "l", "a", "u", "s", "e", " ", "i", "s", " ", "n", "o", "t", " ",
              "t", "r", "u", "t", "h", "y">>,
     fields |-> Unit],
    \* 11: Break
    [ident |-> "Break",
     tpl |-> <<"B", "r", "e", "a", "k", " ", "s", "t", "a", "t", "e", "m", "e",
              "n", "t", " ", "h", "a", "s", " ", "b", "e", "e", "n", " ", "r",
              "e", "a", "c", "h", "e", "d">>,
     fields |-> Unit],
    \* 15: Continue
    [ident |-> "Continue",
     tpl |-> <<"C", "o", "n", "t", "i", "n", "u", "e", " ", "s", "t", "a", "t",
              "e", "m", "e", "n", "t", " ", "h", "a", "s", " ", "b", "e", "e",
              "n", " ", "r", "e", "a", "c", "h", "e", "d">>,
     fields |-> Unit],
    \* 19: Unreachable
    [ident |-> "Unreachable",
     tpl |-> <<"T", "h", "e", " ", "d", "a", "t", "a", "b", "a", "s", "e", " ",
              "e", "n", "c", "o", "u", "n", "t", "e", "r", "e", "d", " ", "u",
              "n", "r", "e", "a", "c", "h", "a", "b", "l", "e", " ", "l", "o",
              "g", "i", "c">>,
     fields |-> Unit],
    \* 23: Thrown
    [ident |-> "Thrown",
     tpl |-> <<"A", "n", " ", "e", "r", "r", "o", "r", " ", "o", "c", "c", "u",
              "r", "r", "e", "d", ":", " ", "{", "0", "}">>,
     fields |-> Unnamed(1)],
    \* 27: Ds
    [ident |-> "Ds",
     tpl |-> <<"T", "h", "e", "r", "e", " ", "w", "a", "s", " ", "a", " ", "p",
              "r", "o", "b", "l", "e", "m", " ", "w", "i", "t", "h", " ", "t",
              "h", "e", " ", "u", "n", "d", "e", "r", "l", "y", "i", "n", "g",
              " ", "d", "a", "t", "a", "s", "t", "o", "r", "e", ":", " ", "{",
              "0", "}">>,
     fields |-> Unnamed(1)],
    \* 31: Tx
    [ident |-> "Tx",
     tpl |-> <<"T", "h", "e", "r", "e", " ", "w", "a", "s", " ", "a", " ", "p",
              "r", "o", "b", "l", "e", "m", " ", "w", "i", "t", "h", " ", "a",
              " ", "d", "a", "t", "a", "s", "t", "o", "r", "e", " ", "t", "r",
              "a", "n", "s", "a", "c", "t", "i", "o", "n", ":", " ", "{", "0",
              "}">>,
     fields |-> Unnamed(1)],
    \* 35: TxFailure
    [ident |-> "TxFailure",
     tpl |-> <<"T", "h", "e", "r", "e", " ", "w", "a", "s", " ", "a", "n", " ",
              "e", "r", "r", "o", "r", " ", "w", "h", "e", "n", " ", "s", "t",
              "a", "r", "t", "i", "n", "g", " ", "a", " ", "n", "e", "w", " ",
              "d", "a", "t", "a", "s", "t", "o", "r", "e", " ", "t", "r", "a",
              "n", "s", "a", "c", "t", "i", "o", "n">>,
     fields |-> Unit],
    \* 39: TxFinished
    [ident |-> "TxFinished",
     tpl |-> <<"C", "o", "u", "l", "d", "n", "'", "t", " ", "u", "p", "d", "a",
              "t", "e", " ", "a", " ", "f", "i", "n", "i", "s", "h", "e", "d",
              " ", "t", "r", "a", "n", "s", "a", "c", "t", "i", "o", "n">>,
     fields |-> Unit],
    \* 43: TxReadonly
    [ident |-> "TxReadonly",
     tpl |-> <<"C", "o", "u", "l", "d", "n", "'", "t", " ", "w", "r", "i", "t",
              "e", " ", "t", "o", " ", "a", " ", "r", "e", "a", "d", " ", "o",
              "n", "l", "y", " ", "t", "r", "a", "n", "s", "a", "c", "t", "i",
              "o", "n">>,
     fields |-> Unit],
    \* 47: TxConditionNotMet
    [ident |-> "TxConditionNotMet",
     tpl |-> <<"V", "a", "l", "u", "e", " ", "b", "e", "i", "n", "g", " ", "c",
              "h", "e", "c", "k", "e", "d", " ", "w", "a", "s", " ", "n", "o",
              "t", " ", "c", "o", "r", "r", "e", "c", "t">>,
     fields |-> Unit],
    \* 51: TxKeyAlreadyExists
    [ident |-> "TxKeyAlreadyExists",
     tpl |-> <<"T", "h", "e", " ", "k", "e", "y", " ", "b", "e", "i", "n", "g",
              " ", "i", "n", "s", "e", "r", "t", "e", "d", " ", "a", "l", "r",
              "e", "a", "d", "y", " ", "e", "x", "i", "s", "t", "s">>,
     fields |-> Unit],
    \* 55: TxKeyTooLarge
    [ident |-> "TxKeyTooLarge",
     tpl |-> <<"R", "e", "c", "o", "r", "d", " ", "i", "d", " ", "o", "r", " ",
              "k", "e", "y", " ", "i", "s", " ", "t", "o", "o", " ", "l", "a",
              "r", "g", "e">>,
     fields |-> Unit],
    \* 59: TxValueTooLarge
    [ident |-> "TxValueTooLarge",
     tpl |-> <<"R", "e", "c", "o", "r", "d", " ", "o", "r", " ", "v", "a", "l",
              "u", "e", " ", "i", "s", " ", "t", "o", "o", " ", "l", "a", "r",
              "g", "e">>,
     fields |-> Unit],
    \* 63: TxTooLarge
    [ident |-> "TxTooLarge",
     tpl |-> <<"T", "r", "a", "n", "s", "a", "c", "t", "i", "o", "n", " ", "i",
              "s", " ", "t", "o", "o", " ", "l", "a", "r", "g", "e">>,
     fields |-> Unit],
    \* 67: NsEmpty
    [ident |-> "NsEmpty",
     tpl |-> <<"S", "p", "e", "c", "i", "f", "y", " ", "a", " ", "n", "a", "m",
              "e", "s", "p", "a", "c", "e", " ", "t", "o", " ", "u", "s", "e">>,
     fields |-> Unit],
    \* 71: DbEmpty
    [ident |-> "DbEmpty",
     tpl |-> <<"S", "p", "e", "c", "i", "f", "y", " ", "a", " ", "d", "a", "t",
              "a", "b", "a", "s", "e", " ", "t", "o", " ", "u", "s", "e">>,
     fields |-> Unit],
    \* 75: QueryEmpty
    [ident |-> "QueryEmpty",
     tpl |-> <<"S", "p", "e", "c", "i", "f", "y", " ", "s", "o", "m", "e", " ",
              "S", "Q", "L", " ", "c", "o", "d", "e", " ", "t", "o", " ", "e",
              "x", "e", "c", "u", "t", "e">>,
     fields |-> Unit],
    \* 79: QueryRemaining
    [ident |-> "QueryRemaining",
     tpl |-> <<"T", "h", "e", " ", "S", "Q", "L", " ", "q", "u", "e", "r", "y",
              " ", "w", "a", "s", " ", "n", "o", "t", " ", "p", "a", "r", "s",
              "e", "d", " ", "f", "u", "l", "l", "y">>,
     fields |-> Unit],
    \* 83: InvalidAuth
    [ident |-> "InvalidAuth",
     tpl |-> <<"T", "h", "e", "r", "e", " ", "w", "a", "s", " ", "a", " ", "p",
              "r", "o", "b", "l", "e", "m", " ", "w", "i", "t", "h", " ", "a",
              "u", "t", "h", "e", "n", "t", "i", "c", "a", "t", "i", "o", "n">>,
     fields |-> Unit],
    \* 87: UnknownAuth
    [ident |-> "UnknownAuth",
     tpl |-> <<"A", "u", "t", "h", " ", "w", "a", "s", " ", "e", "x", "p", "e",
              "c", "t", "e", "d", " ", "t", "o", " ", "b", "e", " ", "s", "e",
              "t", " ", "b", "u", "t", " ", "w", "a", "s", " ", "u", "n", "k",
              "n", "o", "w", "n">>,
     fields |-> Unit],
    \* 91: InvalidQuery
    [ident |-> "InvalidQuery",
     tpl |-> <<"P", "a", "r", "s", "e", " ", "e", "r", "r", "o", "r", " ", "o",
              "n", " ", "l", "i", "n", "e", " ", "{", "l", "i", "n", "e", "}",
              " ", "a", "t", " ", "c", "h", "a", "r", "a", "c", "t", "e", "r",
              " ", "{", "c", "h", "a", "r", "}", " ", "w", "h", "e", "n", " ",
              "p", "a", "r", "s", "i", "n", "g", " ", "'", "{", "s", "q", "l",
              "}", "'">>,
     fields |-> Named(<<<<"l", "i", "n", "e">>, <<"c", "h", "a", "r">>, <<"s", "q", "l">>>>)],
    \* 99: InvalidPatch
    [ident |-> "InvalidPatch",
     tpl |-> <<"T", "h", "e", " ", "J", "S", "O", "N", " ", "P", "a", "t", "c",
              "h", " ", "c", "o", "n", "t", "a", "i", "n", "s", " ", "i", "n",
              "v", "a", "l", "i", "d", " ", "o", "p", "e", "r", "a", "t", "i",
              "o", "n", "s", ".", " ", "{", "m", "e", "s", "s", "a", "g", "e",
              "}">>,
     fields |-> Named(<<<<"m", "e", "s", "s", "a", "g", "e">>>>)],
    \* 103: PatchTest
    [ident |-> "PatchTest",
     tpl |-> <<"G", "i", "v", "e", "n", " ", "t", "e", "s", "t", " ", "o", "p",
              "e", "r", "a", "t", "i", "o", "n", " ", "f", "a", "i", "l", "e",
              "d", " ", "f", "o", "r", " ", "J", "S", "O", "N", " ", "P", "a",
              "t", "c", "h", ".", " ", "E", "x", "p", "e", "c", "t", "e", "d",
              " ", Backtick, "{", "e", "x", "p", "e", "c", "t", "e", "d", "}",
              Backtick, ",", " ", "b", "u", "t", " ", "g", "o", "t", " ",
              Backtick, "{", "g", "o", "t", "}", Backtick, " ", "i", "n", "s",
              "t", "e", "a", "d", ".">>,
     fields |-> Named(<<<<"e", "x", "p", "e", "c", "t", "e", "d">>, <<"g", "o", "t">>>>)],
    \* 107: HttpDisabled
    [ident |-> "HttpDisabled",
     tpl |-> <<"R", "e", "m", "o", "t", "e", " ", "H", "T", "T", "P", " ", "r",
              "e", "q", "u", "e", "s", "t", " ", "f", "u", "n", "c", "t", "i",
              "o", "n", "s", " ", "a", "r", "e", " ", "n", "o", "t", " ", "e",
              "n", "a", "b", "l", "e", "d">>,
     fields |-> Unit],
    \* 111: InvalidParam
    [ident |-> "InvalidParam",
     tpl |-> <<"F", "o", "u", "n", "d", " ", "'", "{", "n", "a", "m", "e", "}",
              "'", " ", "b", "u", "t", " ", "i", "t", " ", "i", "s", " ", "n",
              "o", "t", " ", "p", "o", "s", "s", "i", "b", "l", "e", " ", "t",
              "o", " ", "s", "e", "t", " ", "a", " ", "v", "a", "r", "i", "a",
              "b", "l", "e", " ", "w", "i", "t", "h", " ", "t", "h", "i", "s",
              " ", "n", "a", "m", "e">>,
     fields |-> Named(<<<<"n", "a", "m", "e">>>>)],
    \* 114: InvalidField
    [ident |-> "InvalidField",
     tpl |-> <<"F", "o", "u", "n", "d", " ", "'", "{", "f", "i", "e", "l", "d",
              "}", "'", " ", "i", "n", " ", "S", "E", "L", "E", "C", "T", " ",
              "c", "l", "a", "u", "s", "e", " ", "o", "n", " ", "l", "i", "n",
              "e", " ", "{", "l", "i", "n", "e", "}", ",", " ", "b", "u", "t",
              " ", "f", "i", "e", "l", "d", " ", "i", "s", " ", "n", "o", "t",
              " ", "a", "n", " ", "a", "g", "g", "r", "e", "g", "a", "t", "e",
              " ", "f", "u", "n", "c", "t", "i", "o", "n", ",", " ", "a", "n",
              "d", " ", "i", "s", " ", "n", "o", "t", " ", "p", "r", "e", "s",
              "e", "n", "t", " ", "i", "n", " ", "G", "R", "O", "U", "P", " ",
              "B", "Y", " ", "e", "x", "p", "r", "e", "s", "s", "i", "o", "n">>,
     fields |-> Named(<<<<"l", "i", "n", "e">>, <<"f", "i", "e", "l", "d">>>>)],
    \* 117: InvalidSplit
    [ident |-> "InvalidSplit",
     tpl |-> <<"F", "o", "u", "n", "d", " ", "'", "{", "f", "i", "e", "l", "d",
              "}", "'", " ", "i", "n", " ", "S", "P", "L", "I", "T", " ", "O",
              "N", " ", "c", "l", "a", "u", "s", "e", " ", "o", "n", " ", "l",
              "i", "n", "e", " ", "{", "l", "i", "n", "e", "}", ",", " ", "b",
              "u", "t", " ", "f", "i", "e", "l", "d", " ", "i", "s", " ", "n",
              "o", "t", " ", "p", "r", "e", "s", "e", "n", "t", " ", "i", "n",
              " ", "S", "E", "L", "E", "C", "T", " ", "e", "x", "p", "r", "e",
              "s", "s", "i", "o", "n">>,
     fields |-> Named(<<<<"l", "i", "n", "e">>, <<"f", "i", "e", "l", "d">>>>)],
    \* 120: InvalidOrder
    [ident |-> "InvalidOrder",
     tpl |-> <<"F", "o", "u", "n", "d", " ", "'", "{", "f", "i", "e", "l", "d",
              "}", "'", " ", "i", "n", " ", "O", "R", "D", "E", "R", " ", "B",
              "Y", " ", "c", "l", "a", "u", "s", "e", " ", "o", "n", " ", "l",
              "i", "n", "e", " ", "{", "l", "i", "n", "e", "}", ",", " ", "b",
              "u", "t", " ", "f", "i", "e", "l", "d", " ", "i", "s", " ", "n",
              "o", "t", " ", "p", "r", "e", "s", "e", "n", "t", " ", "i", "n",
              " ", "S", "E", "L", "E", "C", "T", " ", "e", "x", "p", "r", "e",
              "s", "s", "i", "o", "n">>,
     fields |-> Named(<<<<"l", "i", "n", "e">>, <<"f", "i", "e", "l", "d">>>>)],
    \* 123: InvalidGroup
    [ident |-> "InvalidGroup",
     tpl |-> <<"F", "o", "u", "n", "d", " ", "'", "{", "f", "i", "e", "l", "d",
              "}", "'", " ", "i", "n", " ", "G", "R", "O", "U", "P", " ", "B",
              "Y", " ", "c", "l", "a", "u", "s", "e", " ", "o", "n", " ", "l",
              "i", "n", "e", " ", "{", "l", "i", "n", "e", "}", ",", " ", "b",
              "u", "t", " ", "f", "i", "e", "l", "d", " ", "i", "s", " ", "n",
              "o", "t", " ", "p", "r", "e", "s", "e", "n", "t", " ", "i", "n",
              " ", "S", "E", "L", "E", "C", "T", " ", "e", "x", "p", "r", "e",
              "s", "s", "i", "o", "n">>,
     fields |-> Named(<<<<"l", "i", "n", "e">>, <<"f", "i", "e", "l", "d">>>>)],
    \* 127: InvalidLimit
    [ident |-> "InvalidLimit",
     tpl |-> <<"F", "o", "u", "n", "d", " ", "{", "v", "a", "l", "u", "e", "}",
              " ", "b", "u", "t", " ", "t", "h", "e", " ", "L", "I", "M", "I",
              "T", " ", "c", "l", "a", "u", "s", "e", " ", "m", "u", "s", "t",
              " ", "e", "v", "a", "l", "u", "a", "t", "e", " ", "t", "o", " ",
              "a", " ", "p", "o", "s", "i", "t", "i", "v", "e", " ", "i", "n",
              "t", "e", "g", "e", "r">>,
     fields |-> Named(<<<<"v", "a", "l", "u", "e">>>>)],
    \* 131: InvalidStart
    [ident |-> "InvalidStart",
     tpl |-> <<"F", "o", "u", "n", "d", " ", "{", "v", "a", "l", "u", "e", "}",
              " ", "b", "u", "t", " ", "t", "h", "e", " ", "S", "T", "A", "R",
              "T", " ", "c", "l", "a", "u", "s", "e", " ", "m", "u", "s", "t",
              " ", "e", "v", "a", "l", "u", "a", "t", "e", " ", "t", "o", " ",
              "a", " ", "p", "o", "s", "i", "t", "i", "v", "e", " ", "i", "n",
              "t", "e", "g", "e", "r">>,
     fields |-> Named(<<<<"v", "a", "l", "u", "e">>>>)],
    \* 135: InvalidScript
    [ident |-> "InvalidScript",
     tpl |-> <<"P", "r", "o", "b", "l", "e", "m", " ", "w", "i", "t", "h", " ",
              "e", "m", "b", "e", "d", "d", "e", "d", " ", "s", "c", "r", "i",
              "p", "t", " ", "f", "u", "n", "c", "t", "i", "o", "n", ".", " ",
              "{", "m", "e", "s", "s", "a", "g", "e", "}">>,
     fields |-> Named(<<<<"m", "e", "s", "s", "a", "g", "e">>>>)],
    \* 139: InvalidFunction
    [ident |-> "InvalidFunction",
     tpl |-> <<"T", "h", "e", "r", "e", " ", "w", "a", "s", " ", "a", " ", "p",
              "r", "o", "b", "l", "e", "m", " ", "r", "u", "n", "n", "i", "n",
              "g", " ", "t", "h", "e", " ", "{", "n", "a", "m", "e", "}", "(",
              ")", " ", "f", "u", "n", "c", "t", "i", "o", "n", ".", " ", "{",
              "m", "e", "s", "s", "a", "g", "e", "}">>,
     fields |-> Named(<<<<"n", "a", "m", "e">>, <<"m", "e", "s", "s", "a", "g", "e">>>>)],
    \* 143: InvalidArguments
    [ident |-> "InvalidArguments",
     tpl |-> <<"I", "n", "c", "o", "r", "r", "e", "c", "t", " ", "a", "r", "g",
              "u", "m", "e", "n", "t", "s", " ", "f", "o", "r", " ", "f", "u",
              "n", "c", "t", "i", "o", "n", " ", "{", "n", "a", "m", "e", "}",
              "(", ")", ".", " ", "{", "m", "e", "s", "s", "a", "g", "e", "}">>,
     fields |-> Named(<<<<"n", "a", "m", "e">>, <<"m", "e", "s", "s", "a", "g", "e">>>>)],
    \* 147: InvalidUrl
    [ident |-> "InvalidUrl",
     tpl |-> <<"T", "h", "e", " ", "U", "R", "L", " ", Backtick, "{", "0", "}",
              Backtick, " ", "i", "s", " ", "i", "n", "v", "a", "l", "i", "d">>,
     fields |-> Unnamed(1)],
    \* 151: QueryTimedout
    [ident |-> "QueryTimedout",
     tpl |-> <<"T", "h", "e", " ", "q", "u", "e", "r", "y", " ", "w", "a", "s",
              " ", "n", "o", "t", " ", "e", "x", "e", "c", "u", "t", "e", "d",
              " ", "b", "e", "c", "a", "u", "s", "e", " ", "i", "t", " ", "e",
              "x", "c", "e", "e", "d", "e", "d", " ", "t", "h", "e", " ", "t",
              "i", "m", "e", "o", "u", "t">>,
     fields |-> Unit],
    \* 155: QueryCancelled
    [ident |-> "QueryCancelled",
     tpl |-> <<"T", "h", "e", " ", "q", "u", "e", "r", "y", " ", "w", "a", "s",
              " ", "n", "o", "t", " ", "e", "x", "e", "c", "u", "t", "e", "d",
              " ", "d", "u", "e", " ", "t", "o", " ", "a", " ", "c", "a", "n",
              "c", "e", "l", "l", "e", "d", " ", "t", "r", "a", "n", "s", "a",
              "c", "t", "i", "o", "n">>,
     fields |-> Unit],
    \* 159: QueryNotExecuted
    [ident |-> "QueryNotExecuted",
     tpl |-> <<"T", "h", "e", " ", "q", "u", "e", "r", "y", " ", "w", "a", "s",
              " ", "n", "o", "t", " ", "e", "x", "e", "c", "u", "t", "e", "d",
              " ", "d", "u", "e", " ", "t", "o", " ", "a", " ", "f", "a", "i",
              "l", "e", "d", " ", "t", "r", "a", "n", "s", "a", "c", "t", "i",
              "o", "n">>,
     fields |-> Unit],
    \* 163: QueryNotExecutedDetail
    [ident |-> "QueryNotExecutedDetail",
     tpl |-> <<"T", "h", "e", " ", "q", "u", "e", "r", "y", " ", "w", "a", "s",
              " ", "n", "o", "t", " ", "e", "x", "e", "c", "u", "t", "e", "d",
              " ", "d", "u", "e", " ", "t", "o", " ", "a", " ", "f", "a", "i",
              "l", "e", "d", " ", "t", "r", "a", "n", "s", "a", "c", "t", "i",
              "o", "n", ".", " ", "{", "m", "e", "s", "s", "a", "g", "e", "}">>,
     fields |-> Named(<<<<"m", "e", "s", "s", "a", "g", "e">>>>)],
    \* 167: NsNotAllowed
    [ident |-> "NsNotAllowed",
     tpl |-> <<"Y", "o", "u", " ", "d", "o", "n", "'", "t", " ", "h", "a", "v",
              "e", " ", "p", "e", "r", "m", "i", "s", "s", "i", "o", "n", " ",
              "t", "o", " ", "c", "h", "a", "n", "g", "e", " ", "t", "o", " ",
              "t", "h", "e", " ", "{", "n", "s", "}", " ", "n", "a", "m", "e",
              "s", "p", "a", "c", "e">>,
     fields |-> Named(<<<<"n", "s">>>>)],
    \* 171: DbNotAllowed
    [ident |-> "DbNotAllowed",
     tpl |-> <<"Y", "o", "u", " ", "d", "o", "n", "'", "t", " ", "h", "a", "v",
              "e", " ", "p", "e", "r", "m", "i", "s", "s", "i", "o", "n", " ",
              "t", "o", " ", "c", "h", "a", "n", "g", "e", " ", "t", "o", " ",
              "t", "h", "e", " ", "{", "d", "b", "}", " ", "d", "a", "t", "a",
              "b", "a", "s", "e">>,
     fields |-> Named(<<<<"d", "b">>>>)],
    \* 175: NsNotFound
    [ident |-> "NsNotFound",
     tpl |-> <<"T", "h", "e", " ", "n", "a", "m", "e", "s", "p", "a", "c", "e",
              " ", "'", "{", "v", "a", "l", "u", "e", "}", "'", " ", "d", "o",
              "e", "s", " ", "n", "o", "t", " ", "e", "x", "i", "s", "t">>,
     fields |-> Named(<<<<"v", "a", "l", "u", "e">>>>)],
    \* 179: NtNotFound
    [ident |-> "NtNotFound",
     tpl |-> <<"T", "h", "e", " ", "n", "a", "m", "e", "s", "p", "a", "c", "e",
              " ", "t", "o", "k", "e", "n", " ", "'", "{", "v", "a", "l", "u",
              "e", "}", "'", " ", "d", "o", "e", "s", " ", "n", "o", "t", " ",
              "e", "x", "i", "s", "t">>,
     fields |-> Named(<<<<"v", "a", "l", "u", "e">>>>)],
    \* 183: NlNotFound
    [ident |-> "NlNotFound",
     tpl |-> <<"T", "h", "e", " ", "n", "a", "m", "e", "s", "p", "a", "c", "e",
              " ", "l", "o", "g", "i", "n", " ", "'", "{", "v", "a", "l", "u",
              "e", "}", "'", " ", "d", "o", "e", "s", " ", "n", "o", "t", " ",
              "e", "x", "i", "s", "t">>,
     fields |-> Named(<<<<"v", "a", "l", "u", "e">>>>)],
    \* 187: DbNotFound
    [ident |-> "DbNotFound",
     tpl |-> <<"T", "h", "e", " ", "d", "a", "t", "a", "b", "a", "s", "e", " ",
              "'", "{", "v", "a", "l", "u", "e", "}", "'", " ", "d", "o", "e",
              "s", " ", "n", "o", "t", " ", "e", "x", "i", "s", "t">>,
     fields |-> Named(<<<<"v", "a", "l", "u", "e">>>>)],
    \* 191: DtNotFound
    [ident |-> "DtNotFound",
     tpl |-> <<"T", "h", "e", " ", "d", "a", "t", "a", "b", "a", "s", "e", " ",
              "t", "o", "k", "e", "n", " ", "'", "{", "v", "a", "l", "u", "e",
              "}", "'", " ", "d", "o", "e", "s", " ", "n", "o", "t", " ", "e",
              "x", "i", "s", "t">>,
     fields |-> Named(<<<<"v", "a", "l", "u", "e">>>>)],
    \* 195: DlNotFound
    [ident |-> "DlNotFound",
     tpl |-> <<"T", "h", "e", " ", "d", "a", "t", "a", "b", "a", "s", "e", " ",
              "l", "o", "g", "i", "n", " ", "'", "{", "v", "a", "l", "u", "e",
              "}", "'", " ", "d", "o", "e", "s", " ", "n", "o", "t", " ", "e",
              "x", "i", "s", "t">>,
     fields |-> Named(<<<<"v", "a", "l", "u", "e">>>>)],
    \* 199: FcNotFound
    [ident |-> "FcNotFound",
     tpl |-> <<"T", "h", "e", " ", "f", "u", "n", "c", "t", "i", "o", "n", " ",
              "'", "f", "n", ":", ":", "{", "v", "a", "l", "u", "e", "}", "'",
              " ", "d", "o", "e", "s", " ", "n", "o", "t", " ", "e", "x", "i",
              "s", "t">>,
     fields |-> Named(<<<<"v", "a", "l", "u", "e">>>>)],
    \* 203: ScNotFound
    [ident |-> "ScNotFound",
     tpl |-> <<"T", "h", "e", " ", "s", "c", "o", "p", "e", " ", "'", "{", "v",
              "a", "l", "u", "e", "}", "'", " ", "d", "o", "e", "s", " ", "n",
              "o", "t", " ", "e", "x", "i", "s", "t">>,
     fields |-> Named(<<<<"v", "a", "l", "u", "e">>>>)],
    \* 207: ClAlreadyExists
    [ident |-> "ClAlreadyExists",
     tpl |-> <<"T", "h", "e", " ", "n", "o", "d", "e", " ", "'", "{", "v", "a",
              "l", "u", "e", "}", "'", " ", "a", "l", "r", "e", "a", "d", "y",
              " ", "e", "x", "i", "s", "t", "s">>,
     fields |-> Named(<<<<"v", "a", "l", "u", "e">>>>)],
    \* 211: NdNotFound
    [ident |-> "NdNotFound",
     tpl |-> <<"T", "h", "e", " ", "n", "o", "d", "e", " ", "'", "{", "v", "a",
              "l", "u", "e", "}", "'", " ", "d", "o", "e", "s", " ", "n", "o",
              "t", " ", "e", "x", "i", "s", "t">>,
     fields |-> Named(<<<<"v", "a", "l", "u", "e">>>>)],
    \* 215: StNotFound
    [ident |-> "StNotFound",
     tpl |-> <<"T", "h", "e", " ", "s", "c", "o", "p", "e", " ", "t", "o", "k",
              "e", "n", " ", "'", "{", "v", "a", "l", "u", "e", "}", "'", " ",
              "d", "o", "e", "s", " ", "n", "o", "t", " ", "e", "x", "i", "s",
              "t">>,
     fields |-> Named(<<<<"v", "a", "l", "u", "e">>>>)],
    \* 219: PaNotFound
    [ident |-> "PaNotFound",
     tpl |-> <<"T", "h", "e", " ", "p", "a", "r", "a", "m", " ", "'", "$", "{",
              "v", "a", "l", "u", "e", "}", "'", " ", "d", "o", "e", "s", " ",
              "n", "o", "t", " ", "e", "x", "i", "s", "t">>,
     fields |-> Named(<<<<"v", "a", "l", "u", "e">>>>)],
    \* 223: TbNotFound
    [ident |-> "TbNotFound",
     tpl |-> <<"T", "h", "e", " ", "t", "a", "b", "l", "e", " ", "'", "{", "v",
              "a", "l", "u", "e", "}", "'", " ", "d", "o", "e", "s", " ", "n",
              "o", "t", " ", "e", "x", "i", "s", "t">>,
     fields |-> Named(<<<<"v", "a", "l", "u", "e">>>>)],
    \* 227: LvNotFound
    [ident |-> "LvNotFound",
     tpl |-> <<"T", "h", "e", " ", "l", "i", "v", "e", " ", "q", "u", "e", "r",
              "y", " ", "'", "{", "v", "a", "l", "u", "e", "}", "'", " ", "d",
              "o", "e", "s", " ", "n", "o", "t", " ", "e", "x", "i", "s", "t">>,
     fields |-> Named(<<<<"v", "a", "l", "u", "e">>>>)],
    \* 231: LqNotFound
    [ident |-> "LqNotFound",
     tpl |-> <<"T", "h", "e", " ", "c", "l", "u", "s", "t", "e", "r", " ", "l",
              "i", "v", "e", " ", "q", "u", "e", "r", "y", " ", "'", "{", "v",
              "a", "l", "u", "e", "}", "'", " ", "d", "o", "e", "s", " ", "n",
              "o", "t", " ", "e", "x", "i", "s", "t">>,
     fields |-> Named(<<<<"v", "a", "l", "u", "e">>>>)],
    \* 235: AzNotFound
    [ident |-> "AzNotFound",
     tpl |-> <<"T", "h", "e", " ", "a", "n", "a", "l", "y", "z", "e", "r", " ",
              "'", "{", "v", "a", "l", "u", "e", "}", "'", " ", "d", "o", "e",
              "s", " ", "n", "o", "t", " ", "e", "x", "i", "s", "t">>,
     fields |-> Named(<<<<"v", "a", "l", "u", "e">>>>)],
    \* 239: IxNotFound
    [ident |-> "IxNotFound",
     tpl |-> <<"T", "h", "e", " ", "i", "n", "d", "e", "x", " ", "'", "{", "v",
              "a", "l", "u", "e", "}", "'", " ", "d", "o", "e", "s", " ", "n",
              "o", "t", " ", "e", "x", "i", "s", "t">>,
     fields |-> Named(<<<<"v", "a", "l", "u", "e">>>>)],
    \* 243: UserRootNotFound
    [ident |-> "UserRootNotFound",
     tpl |-> <<"T", "h", "e", " ", "r", "o", "o", "t", " ", "u", "s", "e", "r",
              " ", "'", "{", "v", "a", "l", "u", "e", "}", "'", " ", "d", "o",
              "e", "s", " ", "n", "o", "t", " ", "e", "x", "i", "s", "t">>,
     fields |-> Named(<<<<"v", "a", "l", "u", "e">>>>)],
    \* 247: UserNsNotFound
    [ident |-> "UserNsNotFound",
     tpl |-> <<"T", "h", "e", " ", "u", "s", "e", "r", " ", "'", "{", "v", "a",
              "l", "u", "e", "}", "'", " ", "d", "o", "e", "s", " ", "n", "o",
              "t", " ", "e", "x", "i", "s", "t", " ", "i", "n", " ", "t", "h",
              "e", " ", "n", "a", "m", "e", "s", "p", "a", "c", "e", " ", "'",
              "{", "n", "s", "}", "'">>,
     fields |-> Named(<<<<"v", "a", "l", "u", "e">>, <<"n", "s">>>>)],
    \* 251: UserDbNotFound
    [ident |-> "UserDbNotFound",
     tpl |-> <<"T", "h", "e", " ", "u", "s", "e", "r", " ", "'", "{", "v", "a",
              "l", "u", "e", "}", "'", " ", "d", "o", "e", "s", " ", "n", "o",
              "t", " ", "e", "x", "i", "s", "t", " ", "i", "n", " ", "t", "h",
              "e", " ", "d", "a", "t", "a", "b", "a", "s", "e", " ", "'", "{",
              "d", "b", "}", "'">>,
     fields |-> Named(<<<<"v", "a", "l", "u", "e">>, <<"d", "b">>>>)],
    \* 255: RealtimeDisabled
    [ident |-> "RealtimeDisabled",
     tpl |-> <<"U", "n", "a", "b", "l", "e", " ", "t", "o", " ", "p", "e", "r",
              "f", "o", "r", "m", " ", "t", "h", "e", " ", "r", "e", "a", "l",
              "t", "i", "m", "e", " ", "q", "u", "e", "r", "y">>,
     fields |-> Unit],
    \* 259: ComputationDepthExceeded
    [ident |-> "ComputationDepthExceeded",
     tpl |-> <<"R", "e", "a", "c", "h", "e", "d", " ", "e", "x", "c", "e", "s",
              "s", "i", "v", "e", " ", "c", "o", "m", "p", "u", "t", "a", "t",
              "i", "o", "n", " ", "d", "e", "p", "t", "h", " ", "d", "u", "e",
              " ", "t", "o", " ", "f", "u", "n", "c", "t", "i", "o", "n", "s",
              ",", " ", "s", "u", "b", "q", "u", "e", "r", "i", "e", "s", ",",
              " ", "o", "r", " ", "f", "u", "t", "u", "r", "e", "s">>,
     fields |-> Unit],
    \* 263: InvalidStatementTarget
    [ident |-> "InvalidStatementTarget",
     tpl |-> <<"C", "a", "n", " ", "n", "o", "t", " ", "e", "x", "e", "c", "u",
              "t", "e", " ", "s", "t", "a", "t", "e", "m", "e", "n", "t", " ",
              "u", "s", "i", "n", "g", " ", "v", "a", "l", "u", "e", " ", "'",
              "{", "v", "a", "l", "u", "e", "}", "'">>,
     fields |-> Named(<<<<"v", "a", "l", "u", "e">>>>)],
    \* 267: CreateStatement
    [ident |-> "CreateStatement",
     tpl |-> <<"C", "a", "n", " ", "n", "o", "t", " ", "e", "x", "e", "c", "u",
              "t", "e", " ", "C", "R", "E", "A", "T", "E", " ", "s", "t", "a",
              "t", "e", "m", "e", "n", "t", " ", "u", "s", "i", "n", "g", " ",
              "v", "a", "l", "u", "e", " ", "'", "{", "v", "a", "l", "u", "e",
              "}", "'">>,
     fields |-> Named(<<<<"v", "a", "l", "u", "e">>>>)],
    \* 271: UpdateStatement
    [ident |-> "UpdateStatement",
     tpl |-> <<"C", "a", "n", " ", "n", "o", "t", " ", "e", "x", "e", "c", "u",
              "t", "e", " ", "U", "P", "D", "A", "T", "E", " ", "s", "t", "a",
              "t", "e", "m", "e", "n", "t", " ", "u", "s", "i", "n", "g", " ",
              "v", "a", "l", "u", "e", " ", "'", "{", "v", "a", "l", "u", "e",
              "}", "'">>,
     fields |-> Named(<<<<"v", "a", "l", "u", "e">>>>)],
    \* 275: RelateStatement
    [ident |-> "RelateStatement",
     tpl |-> <<"C", "a", "n", " ", "n", "o", "t", " ", "e", "x", "e", "c", "u",
              "t", "e", " ", "R", "E", "L", "A", "T", "E", " ", "s", "t", "a",
              "t", "e", "m", "e", "n", "t", " ", "u", "s", "i", "n", "g", " ",
              "v", "a", "l", "u", "e", " ", "'", "{", "v", "a", "l", "u", "e",
              "}", "'">>,
     fields |-> Named(<<<<"v", "a", "l", "u", "e">>>>)],
    \* 279: DeleteStatement
    [ident |-> "DeleteStatement",
     tpl |-> <<"C", "a", "n", " ", "n", "o", "t", " ", "e", "x", "e", "c", "u",
              "t", "e", " ", "D", "E", "L", "E", "T", "E", " ", "s", "t", "a",
              "t", "e", "m", "e", "n", "t", " ", "u", "s", "i", "n", "g", " ",
              "v", "a", "l", "u", "e", " ", "'", "{", "v", "a", "l", "u", "e",
              "}", "'">>,
     fields |-> Named(<<<<"v", "a", "l", "u", "e">>>>)],
    \* 283: InsertStatement
    [ident |-> "InsertStatement",
     tpl |-> <<"C", "a", "n", " ", "n", "o", "t", " ", "e", "x", "e", "c", "u",
              "t", "e", " ", "I", "N", "S", "E", "R", "T", " ", "s", "t", "a",
              "t", "e", "m", "e", "n", "t", " ", "u", "s", "i", "n", "g", " ",
              "v", "a", "l", "u", "e", " ", "'", "{", "v", "a", "l", "u", "e",
              "}", "'">>,
     fields |-> Named(<<<<"v", "a", "l", "u", "e">>>>)],
    \* 287: LiveStatement
    [ident |-> "LiveStatement",
     tpl |-> <<"C", "a", "n", " ", "n", "o", "t", " ", "e", "x", "e", "c", "u",
              "t", "e", " ", "L", "I", "V", "E", " ", "s", "t", "a", "t", "e",
              "m", "e", "n", "t", " ", "u", "s", "i", "n", "g", " ", "v", "a",
              "l", "u", "e", " ", "'", "{", "v", "a", "l", "u", "e", "}", "'">>,
     fields |-> Named(<<<<"v", "a", "l", "u", "e">>>>)],
    \* 291: KillStatement
    [ident |-> "KillStatement",
     tpl |-> <<"C", "a", "n", " ", "n", "o", "t", " ", "e", "x", "e", "c", "u",
              "t", "e", " ", "K", "I", "L", "L", " ", "s", "t", "a", "t", "e",
              "m", "e", "n", "t", " ", "u", "s", "i", "n", "g", " ", "i", "d",
              " ", "'", "{", "v", "a", "l", "u", "e", "}", "'">>,
     fields |-> Named(<<<<"v", "a", "l", "u", "e">>>>)],
    \* 295: TablePermissions
    [ident |-> "TablePermissions",
     tpl |-> <<"Y", "o", "u", " ", "d", "o", "n", "'", "t", " ", "h", "a", "v",
              "e", " ", "p", "e", "r", "m", "i", "s", "s", "i", "o", "n", " ",
              "t", "o", " ", "r", "u", "n", " ", "t", "h", "i", "s", " ", "q",
              "u", "e", "r", "y", " ", "o", "n", " ", "t", "h", "e", " ",
              Backtick, "{", "t", "a", "b", "l", "e", "}", Backtick, " ", "t",
              "a", "b", "l", "e">>,
     fields |-> Named(<<<<"t", "a", "b", "l", "e">>>>)],
    \* 299: TableIsView
    [ident |-> "TableIsView",
     tpl |-> <<"U", "n", "a", "b", "l", "e", " ", "t", "o", " ", "w", "r", "i",
              "t", "e", " ", "t", "o", " ", "t", "h", "e", " ", Backtick, "{",
              "t", "a", "b", "l", "e", "}", Backtick, " ", "t", "a", "b", "l",
              "e", " ", "w", "h", "i", "l", "e", " ", "s", "e", "t", "u", "p",
              " ", "a", "s", " ", "a", " ", "v", "i", "e", "w">>,
     fields |-> Named(<<<<"t", "a", "b", "l", "e">>>>)],
    \* 303: RecordExists
    [ident |-> "RecordExists",
     tpl |-> <<"D", "a", "t", "a", "b", "a", "s", "e", " ", "r", "e", "c", "o",
              "r", "d", " ", Backtick, "{", "t", "h", "i", "n", "g", "}",
              Backtick, " ", "a", "l", "r", "e", "a", "d", "y", " ", "e", "x",
              "i", "s", "t", "s">>,
     fields |-> Named(<<<<"t", "h", "i", "n", "g">>>>)],
    \* 307: IndexExists
    [ident |-> "IndexExists",
     tpl |-> <<"D", "a", "t", "a", "b", "a", "s", "e", " ", "i", "n", "d", "e",
              "x", " ", Backtick, "{", "i", "n", "d", "e", "x", "}", Backtick,
              " ", "a", "l", "r", "e", "a", "d", "y", " ", "c", "o", "n", "t",
              "a", "i", "n", "s", " ", "{", "v", "a", "l", "u", "e", "}", ",",
              " ", "w", "i", "t", "h", " ", "r", "e", "c", "o", "r", "d", " ",
              Backtick, "{", "t", "h", "i", "n", "g", "}", Backtick>>,
     fields |-> Named(<<<<"t", "h", "i", "n", "g">>, <<"i", "n", "d", "e", "x">>, <<"v", "a", "l", "u", "e">>>>)],
    \* 315: FieldCheck
    [ident |-> "FieldCheck",
     tpl |-> <<"F", "o", "u", "n", "d", " ", "{", "v", "a", "l", "u", "e", "}",
              " ", "f", "o", "r", " ", "f", "i", "e", "l", "d", " ", Backtick,
              "{", "f", "i", "e", "l", "d", "}", Backtick, ",", " ", "w", "i",
              "t", "h", " ", "r", "e", "c", "o", "r", "d", " ", Backtick, "{",
              "t", "h", "i", "n", "g", "}", Backtick, ",", " ", "b", "u", "t",
              " ", "e", "x", "p", "e", "c", "t", "e", "d", " ", "a", " ", "{",
              "c", "h", "e", "c", "k", "}">>,
     fields |-> Named(<<<<"t", "h", "i", "n", "g">>, <<"v", "a", "l", "u", "e">>, <<"f", "i", "e", "l", "d">>, <<"c", "h", "e", "c", "k">>>>)],
    \* 326: FieldValue
    [ident |-> "FieldValue",
     tpl |-> <<"F", "o", "u", "n", "d", " ", "{", "v", "a", "l", "u", "e", "}",
              " ", "f", "o", "r", " ", "f", "i", "e", "l", "d", " ", Backtick,
              "{", "f", "i", "e", "l", "d", "}", Backtick, ",", " ", "w", "i",
              "t", "h", " ", "r", "e", "c", "o", "r", "d", " ", Backtick, "{",
              "t", "h", "i", "n", "g", "}", Backtick, ",", " ", "b", "u", "t",
              " ", "f", "i", "e", "l", "d", " ", "m", "u", "s", "t", " ", "c",
              "o", "n", "f", "o", "r", "m", " ", "t", "o", ":", " ", "{", "c",
              "h", "e", "c", "k", "}">>,
     fields |-> Named(<<<<"t", "h", "i", "n", "g">>, <<"v", "a", "l", "u", "e">>, <<"f", "i", "e", "l", "d">>, <<"c", "h", "e", "c", "k">>>>)],
    \* 335: IdMismatch
    [ident |-> "IdMismatch",
     tpl |-> <<"F", "o", "u", "n", "d", " ", "{", "v", "a", "l", "u", "e", "}",
              " ", "f", "o", "r", " ", "t", "h", "e", " ", "i", "d", " ", "f",
              "i", "e", "l", "d", ",", " ", "b", "u", "t", " ", "a", " ", "s",
              "p", "e", "c", "i", "f", "i", "c", " ", "r", "e", "c", "o", "r",
              "d", " ", "h", "a", "s", " ", "b", "e", "e", "n", " ", "s", "p",
              "e", "c", "i", "f", "i", "e", "d">>,
     fields |-> Named(<<<<"v", "a", "l", "u", "e">>>>)],
    \* 339: IdInvalid
    [ident |-> "IdInvalid",
     tpl |-> <<"F", "o", "u", "n", "d", " ", "{", "v", "a", "l", "u", "e", "}",
              " ", "f", "o", "r", " ", "t", "h", "e", " ", "R", "e", "c", "o",
              "r", "d", " ", "I", "D", " ", "b", "u", "t", " ", "t", "h", "i",
              "s", " ", "i", "s", " ", "n", "o", "t", " ", "a", " ", "v", "a",
              "l", "i", "d", " ", "i", "d">>,
     fields |-> Named(<<<<"v", "a", "l", "u", "e">>>>)],
    \* 343: CoerceTo
    [ident |-> "CoerceTo",
     tpl |-> <<"E", "x", "p", "e", "c", "t", "e", "d", " ", "a", " ", "{", "i",
              "n", "t", "o", "}", " ", "b", "u", "t", " ", "f", "o", "u", "n",
              "d", " ", "{", "f", "r", "o", "m", "}">>,
     fields |-> Named(<<<<"f", "r", "o", "m">>, <<"i", "n", "t", "o">>>>)],
    \* 347: ConvertTo
    [ident |-> "ConvertTo",
     tpl |-> <<"E", "x", "p", "e", "c", "t", "e", "d", " ", "a", " ", "{", "i",
              "n", "t", "o", "}", " ", "b", "u", "t", " ", "c", "a", "n", "n",
              "o", "t", " ", "c", "o", "n", "v", "e", "r", "t", " ", "{", "f",
              "r", "o", "m", "}", " ", "i", "n", "t", "o", " ", "a", " ", "{",
              "i", "n", "t", "o", "}">>,
     fields |-> Named(<<<<"f", "r", "o", "m">>, <<"i", "n", "t", "o">>>>)],
    \* 351: LengthInvalid
    [ident |-> "LengthInvalid",
     tpl |-> <<"E", "x", "p", "e", "c", "t", "e", "d", " ", "a", " ", "{", "k",
              "i", "n", "d", "}", " ", "b", "u", "t", " ", "t", "h", "e", " ",
              "a", "r", "r", "a", "y", " ", "h", "a", "d", " ", "{", "s", "i",
              "z", "e", "}", " ", "i", "t", "e", "m", "s">>,
     fields |-> Named(<<<<"k", "i", "n", "d">>, <<"s", "i", "z", "e">>>>)],
    \* 355: TryAdd
    [ident |-> "TryAdd",
     tpl |-> <<"C", "a", "n", "n", "o", "t", " ", "p", "e", "r", "f", "o", "r",
              "m", " ", "a", "d", "d", "i", "t", "i", "o", "n", " ", "w", "i",
              "t", "h", " ", "'", "{", "0", "}", "'", " ", "a", "n", "d", " ",
              "'", "{", "1", "}", "'">>,
     fields |-> Unnamed(2)],
    \* 359: TrySub
    [ident |-> "TrySub",
     tpl |-> <<"C", "a", "n", "n", "o", "t", " ", "p", "e", "r", "f", "o", "r",
              "m", " ", "s", "u", "b", "t", "r", "a", "c", "t", "i", "o", "n",
              " ", "w", "i", "t", "h", " ", "'", "{", "0", "}", "'", " ", "a",
              "n", "d", " ", "'", "{", "1", "}", "'">>,
     fields |-> Unnamed(2)],
    \* 363: TryMul
    [ident |-> "TryMul",
     tpl |-> <<"C", "a", "n", "n", "o", "t", " ", "p", "e", "r", "f", "o", "r",
              "m", " ", "m", "u", "l", "t", "i", "p", "l", "i", "c", "a", "t",
              "i", "o", "n", " ", "w", "i", "t", "h", " ", "'", "{", "0", "}",
              "'", " ", "a", "n", "d", " ", "'", "{", "1", "}", "'">>,
     fields |-> Unnamed(2)],
    \* 367: TryDiv
    [ident |-> "TryDiv",
     tpl |-> <<"C", "a", "n", "n", "o", "t", " ", "p", "e", "r", "f", "o", "r",
              "m", " ", "d", "i", "v", "i", "s", "i", "o", "n", " ", "w", "i",
              "t", "h", " ", "'", "{", "0", "}", "'", " ", "a", "n", "d", " ",
              "'", "{", "1", "}", "'">>,
     fields |-> Unnamed(2)],
    \* 371: TryPow
    [ident |-> "TryPow",
     tpl |-> <<"C", "a", "n", "n", "o", "t", " ", "r", "a", "i", "s", "e", " ",
              "t", "h", "e", " ", "v", "a", "l", "u", "e", " ", "'", "{", "0",
              "}", "'", " ", "w", "i", "t", "h", " ", "'", "{", "1", "}", "'">>,
     fields |-> Unnamed(2)],
    \* 375: TryNeg
    [ident |-> "TryNeg",
     tpl |-> <<"C", "a", "n", "n", "o", "t", " ", "n", "e", "g", "a", "t", "e",
              " ", "t", "h", "e", " ", "v", "a", "l", "u", "e", " ", "'", "{",
              "0", "}", "'">>,
     fields |-> Unnamed(1)],
    \* 379: TryFrom
    [ident |-> "TryFrom",
     tpl |-> <<"C", "a", "n", "n", "o", "t", " ", "c", "o", "n", "v", "e", "r",
              "t", " ", "f", "r", "o", "m", " ", "'", "{", "0", "}", "'", " ",
              "t", "o", " ", "'", "{", "1", "}", "'">>,
     fields |-> Unnamed(2)],
    \* 383: Http
    [ident |-> "Http",
     tpl |-> <<"T", "h", "e", "r", "e", " ", "w", "a", "s", " ", "a", "n", " ",
              "e", "r", "r", "o", "r", " ", "p", "r", "o", "c", "e", "s", "s",
              "i", "n", "g", " ", "a", " ", "r", "e", "m", "o", "t", "e", " ",
              "H", "T", "T", "P", " ", "r", "e", "q", "u", "e", "s", "t", ":",
              " ", "{", "0", "}">>,
     fields |-> Unnamed(1)],
    \* 387: Channel
    [ident |-> "Channel",
     tpl |-> <<"T", "h", "e", "r", "e", " ", "w", "a", "s", " ", "a", "n", " ",
              "e", "r", "r", "o", "r", " ", "p", "r", "o", "c", "e", "s", "s",
              "i", "n", "g", " ", "a", " ", "v", "a", "l", "u", "e", " ", "i",
              "n", " ", "p", "a", "r", "a", "l", "l", "e", "l", ":", " ", "{",
              "0", "}">>,
     fields |-> Unnamed(1)],
    \* 391: Io
    [ident |-> "Io",
     tpl |-> <<"I", "/", "O", " ", "e", "r", "r", "o", "r", ":", " ", "{", "0",
              "}">>,
     fields |-> Unnamed(1)],
    \* 395: Encode
    [ident |-> "Encode",
     tpl |-> <<"K", "e", "y", " ", "e", "n", "c", "o", "d", "i", "n", "g", " ",
              "e", "r", "r", "o", "r", ":", " ", "{", "0", "}">>,
     fields |-> Unnamed(1)],
    \* 399: Decode
    [ident |-> "Decode",
     tpl |-> <<"K", "e", "y", " ", "d", "e", "c", "o", "d", "i", "n", "g", " ",
              "e", "r", "r", "o", "r", ":", " ", "{", "0", "}">>,
     fields |-> Unnamed(1)],
    \* 403: Revision
    [ident |-> "Revision",
     tpl |-> <<"V", "e", "r", "s", "i", "o", "n", "e", "d", " ", "e", "r", "r",
              "o", "r", ":", " ", "{", "0", "}">>,
     fields |-> Unnamed(1)],
    \* 407: CorruptedIndex
    [ident |-> "CorruptedIndex",
     tpl |-> <<"I", "n", "d", "e", "x", " ", "i", "s", " ", "c", "o", "r", "r",
              "u", "p", "t", "e", "d">>,
     fields |-> Unit],
    \* 411: NoIndexFoundForMatch
    [ident |-> "NoIndexFoundForMatch",
     tpl |-> <<"T", "h", "e", "r", "e", " ", "w", "a", "s", " ", "n", "o", " ",
              "s", "u", "i", "t", "a", "b", "l", "e", " ", "f", "u", "l", "l",
              "-", "t", "e", "x", "t", " ", "i", "n", "d", "e", "x", " ", "s",
              "u", "p", "p", "o", "r", "t", "i", "n", "g", " ", "t", "h", "e",
              " ", "e", "x", "p", "r", "e", "s", "s", "i", "o", "n", " ", "'",
              "{", "v", "a", "l", "u", "e", "}", "'">>,
     fields |-> Named(<<<<"v", "a", "l", "u", "e">>>>)],
    \* 415: AnalyzerError
    [ident |-> "AnalyzerError",
     tpl |-> <<"A", " ", "v", "a", "l", "u", "e", " ", "c", "a", "n", "'", "t",
              " ", "b", "e", " ", "a", "n", "a", "l", "y", "z", "e", "d", ":",
              " ", "{", "0", "}">>,
     fields |-> Unnamed(1)],
    \* 419: HighlightError
    [ident |-> "HighlightError",
     tpl |-> <<"A", " ", "v", "a", "l", "u", "e", " ", "c", "a", "n", "'", "t",
              " ", "b", "e", " ", "h", "i", "g", "h", "l", "i", "g", "h", "t",
              "e", "d", ":", " ", "{", "0", "}">>,
     fields |-> Unnamed(1)],
    \* 423: Bincode
    [ident |-> "Bincode",
     tpl |-> <<"B", "i", "n", "c", "o", "d", "e", " ", "e", "r", "r", "o", "r",
              ":", " ", "{", "0", "}">>,
     fields |-> Unnamed(1)],
    \* 427: FstError
    [ident |-> "FstError",
     tpl |-> <<"F", "s", "t", "E", "r", "r", "o", "r", " ", "e", "r", "r", "o",
              "r", ":", " ", "{", "0", "}">>,
     fields |-> Unnamed(1)],
    \* 431: Utf8Error
    [ident |-> "Utf8Error",
     tpl |-> <<"U", "t", "f", "8", " ", "e", "r", "r", "o", "r", ":", " ", "{",
              "0", "}">>,
     fields |-> Unnamed(1)],
    \* 435: FeatureNotYetImplemented
    [ident |-> "FeatureNotYetImplemented",
     tpl |-> <<"F", "e", "a", "t", "u", "r", "e", " ", "n", "o", "t", " ", "y",
              "e", "t", " ", "i", "m", "p", "l", "e", "m", "e", "n", "t", "e",
              "d", ":", " ", "{", "f", "e", "a", "t", "u", "r", "e", "}">>,
     fields |-> Named(<<<<"f", "e", "a", "t", "u", "r", "e">>>>)],
    \* 439: DuplicatedMatchRef
    [ident |-> "DuplicatedMatchRef",
     tpl |-> <<"D", "u", "p", "l", "i", "c", "a", "t", "e", "d", " ", "M", "a",
              "t", "c", "h", " ", "r", "e", "f", "e", "r", "e", "n", "c", "e",
              ":", " ", "{", "m", "r", "}">>,
     fields |-> Named(<<<<"m", "r">>>>)],
    \* 443: TimestampOverflow
    [ident |-> "TimestampOverflow",
     tpl |-> <<"T", "i", "m", "e", "s", "t", "a", "m", "p", " ", "a", "r", "i",
              "t", "h", "m", "e", "t", "i", "c", " ", "e", "r", "r", "o", "r",
              ":", " ", "{", "0", "}">>,
     fields |-> Unnamed(1)],
    \* 449: Internal
    [ident |-> "Internal",
     tpl |-> <<"I", "n", "t", "e", "r", "n", "a", "l", " ", "d", "a", "t", "a",
              "b", "a", "s", "e", " ", "e", "r", "r", "o", "r", ":", " ", "{",
              "0", "}">>,
     fields |-> Unnamed(1)],
    \* 453: Unimplemented
    [ident |-> "Unimplemented",
     tpl |-> <<"U", "n", "i", "m", "p", "l", "e", "m", "e", "n", "t", "e", "d",
              " ", "f", "u", "n", "c", "t", "i", "o", "n", "a", "l", "i", "t",
              "y", ":", " ", "{", "0", "}">>,
     fields |-> Unnamed(1)],
    \* 456: CorruptedVersionstampInKey
    [ident |-> "CorruptedVersionstampInKey",
     tpl |-> <<"V", "e", "r", "s", "i", "o", "n", "s", "t", "a", "m", "p", " ",
              "i", "n", " ", "k", "e", "y", " ", "i", "s", " ", "c", "o", "r",
              "r", "u", "p", "t", "e", "d", ":", " ", "{", "0", "}">>,
     fields |-> Unnamed(1)],
    \* 460: InvalidLevel
    [ident |-> "InvalidLevel",
     tpl |-> <<"I", "n", "v", "a", "l", "i", "d", " ", "l", "e", "v", "e", "l",
              " ", "'", "{", "0", "}", "'">>,
     fields |-> Unnamed(1)],
    \* 464: IamError
    [ident |-> "IamError",
     tpl |-> <<"I", "A", "M", " ", "e", "r", "r", "o", "r", ":", " ", "{", "0",
              "}">>,
     fields |-> Unnamed(1)],
    \* 471: ScriptingNotAllowed
    [ident |-> "ScriptingNotAllowed",
     tpl |-> <<"S", "c", "r", "i", "p", "t", "i", "n", "g", " ", "f", "u", "n",
              "c", "t", "i", "o", "n", "s", " ", "a", "r", "e", " ", "n", "o",
              "t", " ", "a", "l", "l", "o", "w", "e", "d">>,
     fields |-> Unit],
    \* 475: FunctionNotAllowed
    [ident |-> "FunctionNotAllowed",
     tpl |-> <<"F", "u", "n", "c", "t", "i", "o", "n", " ", "'", "{", "0", "}",
              "'", " ", "i", "s", " ", "n", "o", "t", " ", "a", "l", "l", "o",
              "w", "e", "d", " ", "t", "o", " ", "b", "e", " ", "e", "x", "e",
              "c", "u", "t", "e", "d">>,
     fields |-> Unnamed(1)],
    \* 479: NetTargetNotAllowed
    [ident |-> "NetTargetNotAllowed",
     tpl |-> <<"A", "c", "c", "e", "s", "s", " ", "t", "o", " ", "n", "e", "t",
              "w", "o", "r", "k", " ", "t", "a", "r", "g", "e", "t", " ", "'",
              "{", "0", "}", "'", " ", "i", "s", " ", "n", "o", "t", " ", "a",
              "l", "l", "o", "w", "e", "d">>,
     fields |-> Unnamed(1)],
    \* 483: Deprecated
    [ident |-> "Deprecated",
     tpl |-> <<"{", "0", "}">>,
     fields |-> Unnamed(1)]
  >>

(***************************************************************************)
(* surrealdb-query-builder: QueryOptions::build, which writes a SELECT     *)
(* statement and the map of the variables the statement refers to.         *)
(***************************************************************************)
\* the printable ASCII characters, in the order of their codes 32 to 126
Ascii ==
  <<" ", "!", "\"", "#", "$", "%", "&", "'", "(", ")", "*", "+", ",", "-",
    ".", "/", "0", "1", "2", "3", "4", "5", "6", "7", "8", "9", ":", ";",
    "<", "=", ">", "?", "@", "A", "B", "C", "D", "E", "F", "G", "H", "I",
    "J", "K", "L", "M", "N", "O", "P", "Q", "R", "S", "T", "U", "V", "W",
    "X", "Y", "Z", "[", "\\", "]", "^", "_", Backtick, "a", "b", "c", "d",
    "e", "f", "g", "h", "i", "j", "k", "l", "m", "n", "o", "p", "q", "r",
    "s", "t", "u", "v", "w", "x", "y", "z", "{", "|", "}", "~">>

\* the byte of a character
Byte(c) == 31 + (CHOOSE i \in 1..Len(Ascii) : Ascii[i] = c)

\* Ord for str: byte by byte, a proper prefix first
str_le(a, b) ==
  LET n == IF Len(a) < Len(b) THEN Len(a) ELSE Len(b)
      d == First(1, n, LAMBDA k : a[k] # b[k])
  IN  IF d > n THEN Len(a) <= Len(b) ELSE Byte(a[d]) < Byte(b[d])

\* a sort into descending order
RECURSIVE sort_unstable_descending(_)
sort_unstable_descending(v) ==
  IF Len(v) <= 1 THEN v
  ELSE LET m == CHOOSE i \in 1..Len(v) : \A j \in 1..Len(v) : str_le(v[j], v[i])
       IN  <<v[m]>> \o sort_unstable_descending(SubSeq(v, 1, m - 1)
                                                \o SubSeq(v, m + 1, Len(v)))

\* <[String]>::sort_unstable
RECURSIVE sort_unstable(_)
sort_unstable(v) ==
  IF Len(v) <= 1 THEN v
  ELSE LET m == CHOOSE i \in 1..Len(v) : \A j \in 1..Len(v) : str_le(v[i], v[j])
       IN  <<v[m]>> \o sort_unstable(SubSeq(v, 1, m - 1) \o SubSeq(v, m + 1, Len(v)))

\* <[String]>::join
RECURSIVE join(_, _)
join(v, sep) ==
  IF v = <<>> THEN <<>>
  ELSE IF Len(v) = 1 THEN v[1]
  ELSE v[1] \o sep \o join(Tail(v), sep)

\* Display of an unsigned number: its decimal digits
RECURSIVE usize_fmt(_)
usize_fmt(n) ==
  LET digit == <<"0", "1", "2", "3", "4", "5", "6", "7", "8", "9">>[(n % 10) + 1]
  IN  IF n < 10 THEN <<digit>> ELSE usize_fmt(n \div 10) \o <<digit>>

\* Option<&str> and Option<usize>
NoStr == [some |-> FALSE, value |-> <<>>]
SomeStr(s) == [some |-> TRUE, value |-> s]
NoUsize == [some |-> FALSE, value |-> 0]
SomeUsize(n) == [some |-> TRUE, value |-> n]

\* enum Operator and its Display
Operator == {"Eq", "Ne", "Gt", "Ge", "Lt", "Le", "ContainsAny", "Inside"}

Operator_fmt(operator) ==
  CASE operator = "Eq" -> <<"=">>
    [] operator = "Ne" -> <<"!", "=">>
    [] operator = "Gt" -> <<">">>
    [] operator = "Ge" -> <<">", "=">>
    [] operator = "Lt" -> <<"<">>
    [] operator = "Le" -> <<"<", "=">>
    [] operator = "ContainsAny" ->
         <<"C", "O", "N", "T", "A", "I", "N", "S", "A", "N", "Y">>
    [] operator = "Inside" -> <<"I", "N", "S", "I", "D", "E">>

\* enum FilterValueKind, a string or a number, and its Display: the string
\* as it is, the number in decimal
KindString(s) == [kind |-> "String", s |-> s, n |-> 0]
KindInt(n) == [kind |-> "Int", s |-> <<>>, n |-> n]

FilterValueKind_fmt(value) ==
  IF value.kind = "String" THEN value.s
  ELSE IF value.n < 0 THEN <<"-">> \o usize_fmt(0 - value.n)
  ELSE usize_fmt(value.n)

\* enum FilterValue
FilterEscaped(value) == [tag |-> "Escaped", value |-> value, list |-> <<>>]
FilterUnsafe(value) == [tag |-> "Unsafe", value |-> value, list |-> <<>>]
FilterEscapedList(list) == [tag |-> "EscapedList", value |-> KindInt(0), list |-> list]

\* one element of Filters: (key, (operator, value))
Filter(key, operator, value) == [key |-> key, operator |-> operator, value |-> value]

\* QueryOptions::new
new ==
  [filters |-> <<>>, expansions |-> <<>>, limit |-> NoUsize, offset |-> NoUsize,
   order_by |-> NoStr, order_dir |-> "None"]

\* an identity in place of sanitize: the key goes into the query as given
sanitize_nothing(value) == SomeStr(value)

\* sanitize: the leftmost match of [\w\.]+, the first maximal run of word
\* characters and dots, None when the text has none
sanitize(value) ==
  LET ok(k) == value[k] \in WordChars \cup {"."}
      from == First(1, Len(value), ok)
      to == First(from, Len(value), LAMBDA k : ~ok(k)) - 1
  IN  IF from > Len(value) THEN NoStr ELSE SomeStr(SubSeq(value, from, to))

\* to_variable_ident: every dot becomes an underscore
to_variable_ident(value) ==
  [k \in 1..Len(value) |-> IF value[k] = "." THEN "_" ELSE value[k]]

\* push_query_str
push_query_str(q, value) == q \o <<" ">> \o value

\* a grouping that keeps a list under every operator
grouped_filters_every(filters) ==
  LET kept(f) == sanitize(f.key).some
      seq == SelectSeq(filters, kept)
      keys == {sanitize(seq[n].key).value : n \in 1..Len(seq)}
  IN  [key \in keys |->
        LET mine(f) == sanitize(f.key).value = key
            values == SelectSeq(seq, mine)
        IN  [n \in 1..Len(values) |->
              [operator |-> values[n].operator, value |-> values[n].value]]]

\* the local grouped_filters of build_filters: the filters whose key can be
\* sanitized, by sanitized key and in the order they were supplied; a list
\* stays only under ContainsAny or Inside
grouped_filters(filters) ==
  LET kept(f) ==
        /\ sanitize(f.key).some
        /\ f.value.tag = "EscapedList" => f.operator \in {"ContainsAny", "Inside"}
      seq == SelectSeq(filters, kept)
      keys == {sanitize(seq[n].key).value : n \in 1..Len(seq)}
  IN  [key \in keys |->
        LET mine(f) == sanitize(f.key).value = key
            values == SelectSeq(seq, mine)
        IN  [n \in 1..Len(values) |->
              [operator |-> values[n].operator, value |-> values[n].value]]]

\* the orders in which a HashMap with the keys S may be iterated
Orders(S) ==
  {order \in [1..Cardinality(S) -> S] :
     \A a, b \in 1..Cardinality(S) : order[a] = order[b] => a = b}

\* the key of the i-th value of a group, i from 0
enumerated_key(key, i) ==
  IF i = 0 THEN key ELSE key \o <<"_", "_">> \o usize_fmt(i)

\* the calls of result.insert of flatten_grouped_filters, in the order the
\* loops make them when the groups are visited in the given order
RECURSIVE inserts(_, _)
inserts(grouped, order) ==
  IF order = <<>> THEN <<>>
  ELSE LET key == order[1]
       IN  [n \in 1..Len(grouped[key]) |->
             [enumerated_key |-> enumerated_key(key, n - 1),
              key |-> key,
              operator |-> grouped[key][n].operator,
              value |-> grouped[key][n].value]]
           \o inserts(grouped, Tail(order))

\* flatten_grouped_filters: a later insert under a key replaces the earlier
flatten_grouped_filters(grouped, order) ==
  LET calls == inserts(grouped, order)
      keys == {calls[n].enumerated_key : n \in 1..Len(calls)}
  IN  [k \in keys |->
        LET n == Last(1, Len(calls), LAMBDA m : calls[m].enumerated_key = k)
        IN  [key |-> calls[n].key, operator |-> calls[n].operator,
             value |-> calls[n].value]]

\* the elements of a finite set, one after the other
RECURSIVE iter(_)
iter(S) ==
  IF S = {} THEN <<>>
  ELSE LET x == CHOOSE x \in S : TRUE IN <<x>> \o iter(S \ {x})

\* the closure of the first filter_map of build_filters over the flat map
condition(ek, f) ==
  LET variable_ident == to_variable_ident(ek)
      head == f.key \o <<" ">> \o Operator_fmt(f.operator) \o <<" ">>
  IN  CASE f.value.tag = "Escaped" -> SomeStr(head \o <<"$">> \o variable_ident)
        [] f.value.tag = "Unsafe" -> SomeStr(head \o FilterValueKind_fmt(f.value.value))
        [] OTHER ->
             IF f.operator \in {"ContainsAny", "Inside"}
             THEN SomeStr(head \o <<"$">> \o variable_ident)
             ELSE NoStr

\* filters_query_vec after the sort; the order of the map does not show
filters_query_vec(flat) ==
  LET keys == iter(DOMAIN flat)
      made == SelectSeq([n \in 1..Len(keys) |-> condition(keys[n], flat[keys[n]])],
                        LAMBDA c : c.some)
  IN  sort_unstable([n \in 1..Len(made) |-> made[n].value])

\* the maps the collect of build_filters can give: under every identifier
\* the value of the entry that happened to be visited last
variables(flat) ==
  LET bound == {k \in DOMAIN flat : flat[k].value.tag # "Unsafe"}
      idents == {to_variable_ident(k) : k \in bound}
  IN  {m \in [idents -> {flat[k].value : k \in bound}] :
         \A id \in idents :
           \E k \in bound : to_variable_ident(k) = id /\ m[id] = flat[k].value}

\* HashMap::new
HashMap_new == <<>>

\* build_filters, the groups being visited in the given order
build_filters(filters, order) ==
  IF filters = <<>>
  THEN {[filters_query |-> <<>>, variables |-> HashMap_new]}
  ELSE LET flat == flatten_grouped_filters(grouped_filters(filters), order)
           filters_query == join(filters_query_vec(flat), <<" ", "A", "N", "D", " ">>)
       IN  {[filters_query |-> <<"W", "H", "E", "R", "E", " ">> \o filters_query,
             variables |-> m] : m \in variables(flat)}

\* build with the direction pushed outside the order_by block
build_direction_unguarded(self, table_name, unsafe_columns, order) ==
  LET kept == SelectSeq(self.expansions, LAMBDA e : sanitize(e.key).some)
      joined == join([n \in 1..Len(kept) |->
                        <<"(">> \o kept[n].expansion \o <<")", " ", "A", "S", " ">>
                        \o sanitize(kept[n].key).value],
                     <<",">>)
      expansions == IF joined = <<>> THEN joined ELSE <<",">> \o joined
      select == <<"S", "E", "L", "E", "C", "T", " ">> \o join(unsafe_columns, <<",">>)
                \o expansions \o <<" ", "F", "R", "O", "M", " ">> \o table_name
      order_by == IF self.order_by.some THEN sanitize(self.order_by.value) ELSE NoStr
      ordered(q) ==
        LET by == IF order_by.some
                  THEN push_query_str(q, <<"O", "R", "D", "E", "R", " ", "B", "Y", " ">>
                                         \o order_by.value)
                  ELSE q
        IN  CASE self.order_dir = "Asc" -> push_query_str(by, <<"A", "S", "C">>)
              [] self.order_dir = "Desc" -> push_query_str(by, <<"D", "E", "S", "C">>)
              [] OTHER -> by
      limited(q) ==
        IF self.limit.some
        THEN push_query_str(q, <<"L", "I", "M", "I", "T", " ">> \o usize_fmt(self.limit.value))
        ELSE q
      started(q) ==
        IF self.offset.some
        THEN push_query_str(q, <<"S", "T", "A", "R", "T", " ">> \o usize_fmt(self.offset.value))
        ELSE q
  IN  {[text |-> started(limited(ordered(
                   IF f.filters_query # <<>>
                   THEN push_query_str(select, f.filters_query)
                   ELSE select))),
        variables |-> f.variables] : f \in build_filters(self.filters, order)}

\* QueryOptions::build: what it can return
build(self, table_name, unsafe_columns, order) ==
  LET kept == SelectSeq(self.expansions, LAMBDA e : sanitize(e.key).some)
      joined == join([n \in 1..Len(kept) |->
                        <<"(">> \o kept[n].expansion \o <<")", " ", "A", "S", " ">>
                        \o sanitize(kept[n].key).value],
                     <<",">>)
      expansions == IF joined = <<>> THEN joined ELSE <<",">> \o joined
      select == <<"S", "E", "L", "E", "C", "T", " ">> \o join(unsafe_columns, <<",">>)
                \o expansions \o <<" ", "F", "R", "O", "M", " ">> \o table_name
      order_by == IF self.order_by.some THEN sanitize(self.order_by.value) ELSE NoStr
      ordered(q) ==
        IF order_by.some
        THEN LET by == push_query_str(q, <<"O", "R", "D", "E", "R", " ", "B", "Y", " ">>
                                         \o order_by.value)
             IN  CASE self.order_dir = "Asc" -> push_query_str(by, <<"A", "S", "C">>)
                   [] self.order_dir = "Desc" -> push_query_str(by, <<"D", "E", "S", "C">>)
                   [] OTHER -> by
        ELSE q
      limited(q) ==
        IF self.limit.some
        THEN push_query_str(q, <<"L", "I", "M", "I", "T", " ">> \o usize_fmt(self.limit.value))
        ELSE q
      started(q) ==
        IF self.offset.some
        THEN push_query_str(q, <<"S", "T", "A", "R", "T", " ">> \o usize_fmt(self.offset.value))
        ELSE q
  IN  {[text |-> started(limited(ordered(
                   IF f.filters_query # <<>>
                   THEN push_query_str(select, f.filters_query)
                   ELSE select))),
        variables |-> f.variables] : f \in build_filters(self.filters, order)}

\* the query builder: how many filters and expansions a caller supplies, and
\* the greatest limit and offset
MaxFilters == 3
MaxExpansions == 2
MaxLimit == 1

\* keys that are their own sanitized form: a key, the key the second filter
\* of that key is enumerated to, a key with a dot and its variable identifier
PlainKeys ==
  { <<"k">>, <<"k", "_", "_", "1">>, <<"a", ".", "b">>, <<"a", "_", "b">> }

\* keys sanitize changes: a quote, a run, a semicolon and a second run; and a
\* key without any word character
UnsafeKeys == { <<"\"", "k", ";", "x">>, <<";">> }

\* operator and value of the filters with a single value
ScalarFilters ==
  { <<"Eq", FilterEscaped(KindInt(1))>>,
    <<"Ge", FilterEscaped(KindInt(2))>>,
    <<"Ne", FilterUnsafe(KindString(<<"'", "v", " ", "'">>))>> }

\* the filters a caller supplies: single values under the plain keys, a list
\* under every operator, and an escaped value under the unsafe keys
FilterInputs ==
  {Filter(key, p[1], p[2]) : key \in PlainKeys, p \in ScalarFilters}
  \cup {Filter(<<"k">>, operator, FilterEscapedList(<<KindInt(5), KindInt(6)>>)) :
          operator \in Operator}
  \cup {Filter(key, "Eq", FilterEscaped(KindInt(1))) : key \in UnsafeKeys}

\* the aliases of the expansions, and their expression
ExpansionInputs ==
  {[key |-> key, expansion |-> <<"-", ">", "o">>] :
     key \in {<<"p">>, <<"p", " ", "=", "\"", ";", "q">>, <<";">>}}

\* order_by: none, a column, a column followed by more text, no column at all
OrderByInputs ==
  {NoStr, SomeStr(<<"i", "d">>), SomeStr(<<"i", "d", " ", ";", "x">>), SomeStr(<<";">>)}

UsizeInputs == {NoUsize} \cup {SomeUsize(n) : n \in 0..MaxLimit}

\* the lists of at most n elements of S
Lists(S, n) == UNION {[1..m -> S] : m \in 0..n}

\* the options whose filters vary, the other fields as new() leaves them
FilterOptions == {[new EXCEPT !.filters = f] : f \in Lists(FilterInputs, MaxFilters)}

\* the options whose other fields vary, with no filter, with one, and with
\* one that does not stay
ClauseOptions ==
  {[filters |-> f, expansions |-> e, limit |-> l, offset |-> o,
    order_by |-> by, order_dir |-> dir] :
     f \in {<<>>, <<Filter(<<"\"", "k", ";", "x">>, "Eq", FilterEscaped(KindInt(1)))>>,
            <<Filter(<<"k">>, "Eq", FilterEscapedList(<<KindInt(5), KindInt(6)>>))>>},
     e \in Lists(ExpansionInputs, MaxExpansions),
     l \in UsizeInputs, o \in UsizeInputs,
     by \in OrderByInputs, dir \in {"None", "Asc", "Desc"}}

\* the arguments of build
TableNames == { <<"u", "s", "e", "r">> }
ColumnLists == { << <<"i", "d">>, <<"n", "a", "m", "e">> >> }

(***************************************************************************)
(* State                                                                   *)
(***************************************************************************)
VARIABLES
  variants,   \* the enum the derive is applied to: ident, template, fields
  derived,    \* the output of derive_str_pattern
  REGEXES,    \* the static Lazy<Vec<Regex>>
  pc,         \* "declared", "compile_error", "idle", "called", "returned"
  sent,       \* the value a text was rendered from, if it was
  string,     \* the argument of the current call of from_string
  result,     \* what the call returned
  threads,    \* where each concurrent caller of from_string stands
  constructions, \* how many times the closure of the Lazy has run
  last,       \* the call of a concurrent caller that returned last
  opts,       \* the QueryOptions a caller of the query builder holds
  query       \* what QueryOptions::build returned: the text and the variables

vars == <<variants, derived, REGEXES, pc, sent, string, result,
          threads, constructions, last, opts, query>>

NotSent == [valid |-> FALSE, variant |-> "", fields |-> <<>>]

Threads == 1..MaxThreads
NoCall == [thread |-> 0, string |-> <<>>, result |-> None]
\* no call of build has returned
NotBuilt == [text |-> <<>>, variables |-> HashMap_new]

\* the enum is any list of at most k more variants after `declared`, whose
\* templates have b pieces at most between them; impl_enum returns at the
\* first variant it rejects, so that variant is taken to be the last
RECURSIVE Declared(_, _, _)
Declared(declared, k, b) ==
  \/ /\ declared # <<>>
     /\ variants = declared
  \/ /\ k > 0
     /\ declared # <<>> => impl_variant(declared[Len(declared)]).err = "Ok"
     /\ \E n \in 0..b : \E t \in Templates(n), f \in Shapes :
          Declared(Append(declared,
                          [ident |-> ToString(Len(declared) + 1),
                           tpl |-> t, fields |-> f]),
                   k - 1, b - n)

Init ==
  /\ Declared(<<>>, MaxVariants, MaxPieces)
  /\ derived = [ok |-> FALSE, arms |-> <<>>]
  /\ REGEXES = [state |-> "uninit", vec |-> <<>>]
  /\ pc = "declared"
  /\ sent = NotSent
  /\ string = <<>>
  /\ result = None
  /\ threads = [t \in Threads |-> "idle"]
  /\ constructions = 0
  /\ last = NoCall
  /\ opts = new
  /\ query = NotBuilt

\* the derive runs when the crate is compiled: an Err of impl_enum is a
\* compile error and no from_string exists
derive_str_pattern ==
  /\ pc = "declared"
  /\ derived' = impl_enum(variants)
  /\ pc' = IF derived'.ok THEN "idle" ELSE "compile_error"
  /\ UNCHANGED <<variants, REGEXES, sent, string, result, threads, constructions, last, opts, query>>

\* a caller holds a text rendered from variant i with the given field values
Format(i, values) ==
  /\ pc = "idle"
  /\ sent' = [valid |-> TRUE, variant |-> variants[i].ident, fields |-> values]
  /\ string' = Render(variants[i].tpl, variants[i].fields, values, 1)
  /\ pc' = "called"
  /\ UNCHANGED <<variants, derived, REGEXES, result, threads, constructions, last, opts, query>>

\* a caller holds a text rendered from variant i, whose template repeats a
\* field, with other texts at the repeated placeholders
FormatEach(i, values, later) ==
  /\ pc = "idle"
  /\ Len(later) > 0
  /\ sent' = [valid |-> TRUE, variant |-> variants[i].ident, fields |-> values]
  /\ string' = RenderEach(variants[i].tpl, variants[i].fields, values, later, 1, {})
  /\ pc' = "called"
  /\ UNCHANGED <<variants, derived, REGEXES, result, threads, constructions, last, opts, query>>

\* a caller holds an arbitrary text
Arrive(text) ==
  /\ pc = "idle"
  /\ sent' = NotSent
  /\ string' = text
  /\ pc' = "called"
  /\ UNCHANGED <<variants, derived, REGEXES, result, threads, constructions, last, opts, query>>

\* from_string(string): the first use forces the lazy static
FromString ==
  /\ pc = "called"
  /\ REGEXES' = IF REGEXES.state = "uninit" THEN lazy_force(derived.arms)
                ELSE REGEXES
  /\ result' = IF REGEXES'.state = "poisoned" THEN Panic
               ELSE from_string(derived.arms, REGEXES'.vec, string)
  /\ pc' = "returned"
  /\ UNCHANGED <<variants, derived, sent, string, threads, constructions, last, opts, query>>

\* (the texts are rendered only where a caller can hold one)
Next ==
  \/ derive_str_pattern
  \/ /\ pc = "idle"
     /\ \E i \in 1..Len(variants) :
          \E values \in [1..variants[i].fields.n -> Values] : Format(i, values)
  \/ /\ pc = "idle"
     /\ \E i \in 1..Len(variants) :
          \E values \in [1..variants[i].fields.n -> Values] :
            \E later \in [1..LaterCount(variants[i].tpl, variants[i].fields, 1, {})
                             -> Texts] :
              FormatEach(i, values, later)
  \/ \E text \in Texts : Arrive(text)
  \/ FromString

Spec == Init /\ [][Next]_vars

\* the same program with the shipped enum
InitCatalog ==
  /\ variants = QueryError
  /\ derived = [ok |-> FALSE, arms |-> <<>>]
  /\ REGEXES = [state |-> "uninit", vec |-> <<>>]
  /\ pc = "declared"
  /\ sent = NotSent
  /\ string = <<>>
  /\ result = None
  /\ threads = [t \in Threads |-> "idle"]
  /\ constructions = 0
  /\ last = NoCall
  /\ opts = new
  /\ query = NotBuilt

SpecCatalog == InitCatalog /\ [][Next]_vars

(***************************************************************************)
(* Concurrent callers: the derive has run, and every thread calls          *)
(* from_string again and again.  The static is a once_cell::sync::Lazy.    *)
(***************************************************************************)
\* the enums of the concurrent program: two variants that both match some
\* texts, in either order, and an enum whose pattern does not compile
ThreadEnums ==
  { << [ident |-> "1", tpl |-> <<"a">>, fields |-> Unit],
       [ident |-> "2", tpl |-> <<"{", "0", "}">>, fields |-> Unnamed(1)] >>,
    << [ident |-> "1", tpl |-> <<"{", "0", "}">>, fields |-> Unnamed(1)],
       [ident |-> "2", tpl |-> <<"a">>, fields |-> Unit] >>,
    << [ident |-> "1", tpl |-> <<"{", "0", "}", "{", "0", "}">>,
        fields |-> Unnamed(2)] >> }

InitThreads ==
  /\ variants \in ThreadEnums
  /\ derived = impl_enum(variants)
  /\ REGEXES = [state |-> "uninit", vec |-> <<>>]
  /\ pc = "idle"
  /\ sent = NotSent
  /\ string = <<>>
  /\ result = None
  /\ threads = [t \in Threads |-> "idle"]
  /\ constructions = 0
  /\ last = NoCall
  /\ opts = new
  /\ query = NotBuilt

\* a lazy without its guard: a thread that finds the value missing starts
\* the closure, whether or not another thread is running it
lazy_deref_unguarded(state) ==
  CASE state = "ready" -> "read"
    [] state = "poisoned" -> "panic"
    [] OTHER -> "build"

\* what Lazy::deref does for a thread, by the state of the cell: the first
\* thread runs the closure, the others wait for it; once the closure has
\* panicked every deref panics
lazy_deref(state) ==
  CASE state = "ready" -> "read"
    [] state = "uninit" -> "build"
    [] state = "running" -> "wait"
    [] OTHER -> "panic"

\* thread t enters from_string
Call(t) ==
  /\ threads[t] = "idle"
  /\ threads' = [threads EXCEPT ![t] = "deref"]
  /\ UNCHANGED <<variants, derived, REGEXES, pc, sent, string, result,
                 constructions, last, opts, query>>

\* #regexes_ident.iter(): the deref of the static
Deref(t) ==
  /\ threads[t] = "deref"
  /\ lazy_deref(REGEXES.state) # "wait"
  /\ CASE lazy_deref(REGEXES.state) = "read" ->
            /\ threads' = [threads EXCEPT ![t] = "matching"]
            /\ UNCHANGED <<REGEXES, last>>
       [] lazy_deref(REGEXES.state) = "build" ->
            /\ threads' = [threads EXCEPT ![t] = "building"]
            /\ REGEXES' = [state |-> "running", vec |-> <<>>]
            /\ UNCHANGED last
       [] OTHER ->
            /\ threads' = [threads EXCEPT ![t] = "panicked"]
            /\ last' = [thread |-> t, string |-> <<>>, result |-> Panic]
            /\ UNCHANGED REGEXES
  /\ UNCHANGED <<variants, derived, pc, sent, string, result, constructions, opts, query>>

\* the closure vec![ Regex::new(..).unwrap(), .. ] runs in thread t and the
\* cell takes its value; an unwrap that panics poisons the Lazy
Build(t) ==
  /\ threads[t] = "building"
  /\ constructions' = constructions + 1
  /\ REGEXES' = lazy_force(derived.arms)
  /\ IF REGEXES'.state = "ready"
     THEN /\ threads' = [threads EXCEPT ![t] = "matching"]
          /\ UNCHANGED last
     ELSE /\ threads' = [threads EXCEPT ![t] = "panicked"]
          /\ last' = [thread |-> t, string |-> <<>>, result |-> Panic]
  /\ UNCHANGED <<variants, derived, pc, sent, string, result, opts, query>>

\* the loop of from_string in thread t over the vector it got, on its text
Match(t, text) ==
  /\ threads[t] = "matching"
  /\ last' = [thread |-> t, string |-> text,
              result |-> from_string(derived.arms, REGEXES.vec, text)]
  /\ threads' = [threads EXCEPT ![t] = "idle"]
  /\ UNCHANGED <<variants, derived, REGEXES, pc, sent, string, result,
                 constructions, opts, query>>

NextThreads ==
  \/ \E t \in Threads : Call(t)
  \/ \E t \in Threads : Deref(t)
  \/ \E t \in Threads : Build(t)
  \/ \E t \in Threads, text \in Texts : Match(t, text)

SpecThreads == InitThreads /\ [][NextThreads]_vars

(***************************************************************************)
(* The query builder: a caller holds QueryOptions and calls build once,    *)
(* which consumes them.  The two maps of build_filters are std HashMaps    *)
(* with a random hasher: the order they are iterated in is not fixed.      *)
(***************************************************************************)
InitBuild ==
  /\ variants = <<>>
  /\ derived = [ok |-> FALSE, arms |-> <<>>]
  /\ REGEXES = [state |-> "uninit", vec |-> <<>>]
  /\ pc = "options"
  /\ sent = NotSent
  /\ string = <<>>
  /\ result = None
  /\ threads = [t \in Threads |-> "idle"]
  /\ constructions = 0
  /\ last = NoCall
  /\ opts \in FilterOptions \cup ClauseOptions
  /\ query = NotBuilt

\* opts.build(table_name, unsafe_columns) returns
CallBuild(table_name, unsafe_columns, order, returned) ==
  /\ pc = "options"
  /\ returned \in build(opts, table_name, unsafe_columns, order)
  /\ query' = returned
  /\ pc' = "built"
  /\ UNCHANGED <<variants, derived, REGEXES, sent, string, result, threads,
                 constructions, last, opts>>

NextBuild ==
  \E table_name \in TableNames, unsafe_columns \in ColumnLists :
    \E order \in Orders(DOMAIN grouped_filters(opts.filters)) :
      \E returned \in build(opts, table_name, unsafe_columns, order) :
        CallBuild(table_name, unsafe_columns, order, returned)

SpecBuild == InitBuild /\ [][NextBuild]_vars

\* everything a call of build on the options o can return
BuildOutcomes(o) ==
  UNION {build(o, table_name, unsafe_columns, order) :
           table_name \in TableNames, unsafe_columns \in ColumnLists,
           order \in Orders(DOMAIN grouped_filters(o.filters))}

(***************************************************************************)
(* The derive and from_string on enums of one variant whose template has   *)
(* placeholders around a separator, with longer texts                      *)
(***************************************************************************)
\* characters of a text handed to such an enum
MaxInputLen == 4

\* the separator, a character foreign to it and the line feed
InputChars == {"a", "v", "\n"}
InputTexts == Strings(InputChars, MaxInputLen)

\* #[str_pattern("{0}a{1}")] V(String, String), the same with named fields,
\* and three fields around two separators
SeparatorEnums ==
  { << [ident |-> "1", tpl |-> <<"{", "0", "}", "a", "{", "1", "}">>,
        fields |-> Unnamed(2)] >>,
    << [ident |-> "1", tpl |-> <<"{", "x", "}", "a", "{", "y", "}">>,
        fields |-> Named(<< <<"x">>, <<"y">> >>)] >>,
    << [ident |-> "1",
        tpl |-> <<"{", "0", "}", "a", "{", "1", "}", "a", "{", "2", "}">>,
        fields |-> Unnamed(3)] >> }

\* braces that enclose nothing, a hyphen or a blank
LiteralBraces ==
  { <<"{", "}">>, <<"{", "a", "-", "b", "}">>, <<"{", "a", " ", "b", "}">> }

\* templates of such braces alone, two in a row, and one before or after a
\* placeholder
BraceTemplates ==
  LiteralBraces
  \cup {p \o q : p, q \in LiteralBraces}
  \cup {p \o q : p \in LiteralBraces, q \in {<<"{", "0", "}">>, <<"{", "x", "}">>}}
  \cup {q \o p : p \in LiteralBraces, q \in {<<"{", "0", "}">>, <<"{", "x", "}">>}}

BraceEnums ==
  { << [ident |-> "1", tpl |-> t, fields |-> f] >> :
      t \in BraceTemplates, f \in {Unit, Unnamed(1), Named(<< <<"x">> >>)} }

TemplateEnums == SeparatorEnums \cup BraceEnums

\* texts with braces: the brace pairs and texts close to them, alone, in a
\* row, and with a character before or after
BraceTexts ==
  LET near == LiteralBraces \cup { <<"{">>, <<"a", "-", "b">>, <<"{", "a", "}">>,
                                    <<"{", "a", "b", "}">> }
  IN  near \cup {p \o q : p, q \in LiteralBraces}
           \cup {p \o <<"a">> : p \in near} \cup {<<"a">> \o p : p \in near}

InitTemplates ==
  /\ variants \in TemplateEnums
  /\ derived = [ok |-> FALSE, arms |-> <<>>]
  /\ REGEXES = [state |-> "uninit", vec |-> <<>>]
  /\ pc = "declared"
  /\ sent = NotSent
  /\ string = <<>>
  /\ result = None
  /\ threads = [t \in Threads |-> "idle"]
  /\ constructions = 0
  /\ last = NoCall
  /\ opts = new
  /\ query = NotBuilt

NextTemplates ==
  \/ derive_str_pattern
  \/ \E text \in InputTexts \cup BraceTexts : Arrive(text)
  \/ FromString

SpecTemplates == InitTemplates /\ [][NextTemplates]_vars

(***************************************************************************)
(* Notions the properties are stated with                                  *)
(***************************************************************************)
\* the placeholder tokens of a template, left to right, read off the
\* template itself: brace pairs around a run of word characters
RECURSIVE Tokens(_, _)
Tokens(tpl, i) ==
  LET k == First(i, Len(tpl), LAMBDA p : PlaceholderAt(tpl, p) # 0)
  IN  IF k > Len(tpl) THEN <<>>
      ELSE <<SubSeq(tpl, k + 1, PlaceholderAt(tpl, k) - 2)>>
           \o Tokens(tpl, PlaceholderAt(tpl, k))

TokenSet(tpl) == {Tokens(tpl, 1)[k] : k \in 1..Len(Tokens(tpl, 1))}

\* the template holds a character outside its placeholders
HasLiteral(tpl) ==
  \E p \in 1..Len(tpl) :
    \A k \in 1..p : PlaceholderAt(tpl, k) = 0 \/ PlaceholderAt(tpl, k) <= p

\* the items of re from k on fit text from index p to its very end, every
\* placeholder standing for any text
RECURSIVE FitsFrom(_, _, _, _)
FitsFrom(re, k, text, p) ==
  IF k > Len(re) THEN p = Len(text) + 1
  ELSE IF re[k].t = "lit"
    THEN LitAt(text, p, re[k].s) /\ FitsFrom(re, k + 1, text, p + Len(re[k].s))
  ELSE \E q \in p..(Len(text) + 1) : FitsFrom(re, k + 1, text, q)

\* the whole text, first character to last, fits the i-th pattern
FitsWhole(i, text) == FitsFrom(REGEXES.vec[i], 1, text, 1)

Returned == pc = "returned"
\* the derive has just run
Derived == pc \in {"idle", "compile_error"}
Built == REGEXES.state = "ready"

\* the patterns from_string finds in the text
Hits == {i \in 1..Len(REGEXES.vec) : is_match(REGEXES.vec[i], string)}

\* the position of the variant a result names
IndexOf(ident) == CHOOSE i \in 1..Len(variants) : variants[i].ident = ident

\* the variant the text was rendered from
SentIndex == IndexOf(sent.variant)

\* a field value of letters and digits only, at least one
Plain(value) == value # <<>> /\ \A k \in 1..Len(value) : value[k] \in WordChars

(***************************************************************************)
(* C1  A pattern matches a text only when the whole text, first character  *)
(* to last, fits the template: from_string never returns a variant whose   *)
(* template the text merely contains.                                      *)
(***************************************************************************)
C1_WholeInputOnly ==
  (Returned /\ Built /\ result.kind = "Some")
    => FitsWhole(IndexOf(result.variant), string)

(***************************************************************************)
(* C2  Round trip: for a variant whose template repeats no field name and  *)
(* any field values, from_string of the rendered text returns that variant *)
(* with those values.                                                      *)
(***************************************************************************)
NoRepeatedField(tpl) ==
  \A k, l \in 1..Len(Tokens(tpl, 1)) :
    Tokens(tpl, 1)[k] = Tokens(tpl, 1)[l] => k = l

C2_RoundTrip ==
  (Returned /\ sent.valid /\ NoRepeatedField(variants[SentIndex].tpl))
    => result = Some(sent.variant, sent.fields)

(***************************************************************************)
(* C3  from_string selects by declaration position alone: a returned       *)
(* variant is the first declared one whose pattern matches, None is        *)
(* returned only when none matches, the patterns declared after the first  *)
(* match do not change the result, and with the two declarations swapped   *)
(* the other of two matching variants is returned.                         *)
(***************************************************************************)
FirstHit(hits) == CHOOSE h \in hits : \A g \in hits : h <= g

\* from_string of the same text over the first n declarations only
PrefixResult(n) ==
  from_string(SubSeq(derived.arms, 1, n), SubSeq(REGEXES.vec, 1, n), string)

\* from_string of the same text with the two declarations swapped
SwappedResult ==
  LET d == impl_enum(<<variants[2], variants[1]>>)
  IN  from_string(d.arms, lazy_force(d.arms).vec, string)

C3_FirstDeclaredMatchWins ==
  (Returned /\ Built) =>
    LET hits == Hits
    IN  /\ result.kind = "None" <=> hits = {}
        /\ hits # {} =>
              /\ result.kind = "Some"
                   => result.variant = variants[FirstHit(hits)].ident
              /\ result = PrefixResult(FirstHit(hits))
              /\ (Len(variants) = 2 /\ hits = {1, 2} /\ SwappedResult.kind = "Some")
                   => SwappedResult.variant = variants[2].ident

C3_Witness ==
  /\ Returned /\ Built
  /\ Len(variants) = 2 /\ Hits = {1, 2}
  /\ variants[1].tpl # variants[2].tpl
  /\ result.kind = "Some" /\ result.variant = variants[1].ident
  /\ SwappedResult.kind = "Some" /\ SwappedResult.variant = variants[2].ident

(***************************************************************************)
(* C4  For the shipped QueryError enum, the message of any variant         *)
(* rendered with plain field values is parsed back to that variant, also   *)
(* when an earlier unit variant's template is a prefix of the message      *)
(* (QueryNotExecuted before QueryNotExecutedDetail).                       *)
(***************************************************************************)
C4_CatalogVariantRecovered ==
  (Returned /\ sent.valid /\ \A k \in 1..Len(sent.fields) : Plain(sent.fields[k]))
    => result.kind = "Some" /\ result.variant = sent.variant

(***************************************************************************)
(* C5  Every accepted template has exactly one capture group per field:    *)
(* for a tuple variant of n fields each of _0 .. _(n-1) names exactly one  *)
(* group, for a struct variant each field name does.                       *)
(***************************************************************************)
GroupCount(src, name) ==
  Cardinality({k \in 1..Len(regex_parse(src, 1)) :
                 regex_parse(src, 1)[k] = Cap(name)})

C5_OneCapturePerField ==
  (Derived /\ derived.ok) =>
    \A i \in 1..Len(variants) :
      /\ \A f \in 1..Len(derived.arms[i].fields) :
           GroupCount(derived.arms[i].regex, derived.arms[i].fields[f]) = 1
      /\ \A k \in 1..Len(regex_parse(derived.arms[i].regex, 1)) :
           regex_parse(derived.arms[i].regex, 1)[k].t = "cap" =>
             \E f \in 1..Len(derived.arms[i].fields) :
               derived.arms[i].fields[f] = regex_parse(derived.arms[i].regex, 1)[k].name

(***************************************************************************)
(* C6  Every defect of a template is reported by the derive: once the      *)
(* derive has accepted the enum, no call of from_string panics.            *)
(***************************************************************************)
C6_NoPanicAfterAcceptance == Returned => result.kind # "Panic"

(***************************************************************************)
(* C7  A unit variant is accepted exactly when its template holds no       *)
(* placeholder; a rejected enum yields no pattern.                         *)
(***************************************************************************)
IsUnit(i) == variants[i].fields.kind = "Unit"

C7_UnitHasNoPlaceholders ==
  Derived =>
    /\ derived.ok =>
         \A i \in 1..Len(variants) : IsUnit(i) => Tokens(variants[i].tpl, 1) = <<>>
    /\ (\A i \in 1..Len(variants) : IsUnit(i) /\ Tokens(variants[i].tpl, 1) = <<>>)
         => derived.ok
    /\ ~derived.ok => derived.arms = <<>> /\ pc = "compile_error"

C7_Witness ==
  /\ pc = "compile_error"
  /\ \A i \in 1..Len(variants) : IsUnit(i)
  /\ \E i \in 1..Len(variants) : Tokens(variants[i].tpl, 1) # <<>>

(***************************************************************************)
(* C8  A tuple variant of n fields is rejected unless its template has n   *)
(* placeholders and every token is a decimal number below n.               *)
(***************************************************************************)
IsDecimal(token) ==
  token # <<>> /\ \A k \in 1..Len(token) : token[k] \in Digits

TupleShapeOk(v) ==
  /\ Len(Tokens(v.tpl, 1)) = v.fields.n
  /\ \A k \in 1..Len(Tokens(v.tpl, 1)) :
       /\ IsDecimal(Tokens(v.tpl, 1)[k])
       /\ parse_usize(Tokens(v.tpl, 1)[k]) < v.fields.n

C8_TupleRejectedUnlessIndicesInRange ==
  (Derived /\ derived.ok) =>
    \A i \in 1..Len(variants) :
      variants[i].fields.kind = "Unnamed" => TupleShapeOk(variants[i])

C8_Witness ==
  /\ pc = "compile_error"
  /\ Len(variants) = 1
  /\ variants[1].fields.kind = "Unnamed"
  /\ Len(Tokens(variants[1].tpl, 1)) = variants[1].fields.n
  /\ \E k \in 1..Len(Tokens(variants[1].tpl, 1)) :
       parse_usize(Tokens(variants[1].tpl, 1)[k]) = variants[1].fields.n

(***************************************************************************)
(* C9  A struct variant is accepted exactly when the set of placeholder    *)
(* names is the set of its field names; a name may occur more than once.   *)
(***************************************************************************)
IsNamed(i) == variants[i].fields.kind = "Named"

FieldSet(v) == {v.fields.names[k] : k \in 1..Len(v.fields.names)}

C9_StructAcceptedIffNameSetsEqual ==
  Derived =>
    /\ derived.ok =>
         \A i \in 1..Len(variants) :
           IsNamed(i) => TokenSet(variants[i].tpl) = FieldSet(variants[i])
    /\ (\A i \in 1..Len(variants) :
          IsNamed(i) /\ TokenSet(variants[i].tpl) = FieldSet(variants[i]))
         => derived.ok

C9_Witness ==
  /\ pc = "idle"
  /\ \E i \in 1..Len(variants) :
       /\ IsNamed(i)
       /\ ~NoRepeatedField(variants[i].tpl)
       /\ TokenSet(variants[i].tpl) = FieldSet(variants[i])

(***************************************************************************)
(* C10  When no pattern matches the text, from_string returns None: the    *)
(* empty text against templates that all hold a literal character is       *)
(* answered None, and a panic is never the answer to a text that matches   *)
(* nothing.                                                                *)
(***************************************************************************)
C10_NoMatchIsNone ==
  (Returned /\ Built) =>
    /\ result.kind = "Some"
         => is_match(REGEXES.vec[IndexOf(result.variant)], string)
    /\ result.kind = "Panic" => Hits # {}
    /\ (string = <<>> /\ \A i \in 1..Len(variants) : HasLiteral(variants[i].tpl))
         => result = None

C10_Witness ==
  /\ Returned /\ Built
  /\ string = <<>>
  /\ \A i \in 1..Len(variants) : HasLiteral(variants[i].tpl)
  /\ result = None

(***************************************************************************)
(* C11  Every character of a template outside its placeholders is matched  *)
(* literally: when from_string returns a variant, the text holds the       *)
(* template's own characters, meta characters included, in order, with any *)
(* text in the place of each placeholder; a text that differs from the     *)
(* template in a meta character is not matched.                            *)
(***************************************************************************)
\* the template read directly: its literal stretches and, for every
\* placeholder, a gap
RECURSIVE TemplateItems(_, _)
TemplateItems(tpl, i) ==
  LET k == First(i, Len(tpl), LAMBDA p : PlaceholderAt(tpl, p) # 0)
      lit == IF k > i THEN <<Lit(SubSeq(tpl, i, k - 1))>> ELSE <<>>
  IN  IF k > Len(tpl) THEN lit
      ELSE lit \o <<Wild>> \o TemplateItems(tpl, PlaceholderAt(tpl, k))

\* the items from k on stand in text from index p, character for character
RECURSIVE StandsAt(_, _, _, _)
StandsAt(items, k, text, p) ==
  IF k > Len(items) THEN TRUE
  ELSE IF items[k].t = "lit"
    THEN /\ LitAt(text, p, items[k].s)
         /\ StandsAt(items, k + 1, text, p + Len(items[k].s))
  ELSE \E q \in p..(Len(text) + 1) : StandsAt(items, k + 1, text, q)

\* the text holds the template somewhere
HoldsTemplate(tpl, text) ==
  \E p \in 1..(Len(text) + 1) : StandsAt(TemplateItems(tpl, 1), 1, text, p)

C11_TemplateTextIsLiteral ==
  (Returned /\ Built /\ result.kind = "Some")
    => HoldsTemplate(variants[IndexOf(result.variant)].tpl, string)

C11_Witness ==
  /\ Returned /\ Built
  /\ Len(variants) = 1
  /\ variants[1].tpl = <<".">>
  /\ string = <<"a">>
  /\ result = None

(***************************************************************************)
(* C12  When a struct template repeats a field name, the pattern has a     *)
(* named group at the first placeholder of the name and a bare wildcard at *)
(* every later one, the literal text around them kept; for the shipped     *)
(* enum, a text with a plain value at the first placeholder and any other  *)
(* text at the repeated one is parsed to the value at the first.           *)
(***************************************************************************)
\* the items the pattern of a struct template has to have: the template's
\* literal stretches, a group where a name first stands, a wildcard after
RECURSIVE FirstIsGroup(_, _, _)
FirstIsGroup(tpl, i, seen) ==
  LET k == First(i, Len(tpl), LAMBDA p : PlaceholderAt(tpl, p) # 0)
      lit == IF k > i THEN <<Lit(SubSeq(tpl, i, k - 1))>> ELSE <<>>
      name == SubSeq(tpl, k + 1, PlaceholderAt(tpl, k) - 2)
  IN  IF k > Len(tpl) THEN lit
      ELSE IF name \in seen
        THEN lit \o <<Wild>> \o FirstIsGroup(tpl, PlaceholderAt(tpl, k), seen)
      ELSE lit \o <<Cap(name)>>
           \o FirstIsGroup(tpl, PlaceholderAt(tpl, k), seen \cup {name})

C12_RepeatedNameReadAtFirst ==
  (/\ Returned /\ sent.valid
   /\ variants[SentIndex].fields.kind = "Named"
   /\ ~NoRepeatedField(variants[SentIndex].tpl))
    => /\ Built
       /\ REGEXES.vec[SentIndex] = FirstIsGroup(variants[SentIndex].tpl, 1, {})
       /\ (\A k \in 1..Len(sent.fields) : Plain(sent.fields[k]))
            => result = Some(sent.variant, sent.fields)

C12_Witness ==
  /\ Returned /\ sent.valid
  /\ sent.variant = "ConvertTo"
  /\ \A k \in 1..Len(sent.fields) : Plain(sent.fields[k])
  /\ string # Render(variants[SentIndex].tpl, variants[SentIndex].fields,
                     sent.fields, 1)
  /\ result = Some("ConvertTo", sent.fields)

(***************************************************************************)
(* C13  With the catch-all template {0} declared last (Deprecated),        *)
(* from_string returns a variant for every text, and for a text that no    *)
(* earlier pattern matches it returns Deprecated holding the whole text,   *)
(* the empty text included.                                                *)
(***************************************************************************)
CatchAllLast ==
  /\ variants[Len(variants)].tpl = <<"{", "0", "}">>
  /\ variants[Len(variants)].fields = Unnamed(1)

C13_CatchAllReturnsWholeText ==
  (Returned /\ Built /\ CatchAllLast) =>
    /\ result.kind = "Some"
    /\ (\A i \in 1..(Len(variants) - 1) : ~is_match(REGEXES.vec[i], string))
         => result = Some(variants[Len(variants)].ident, <<string>>)

(***************************************************************************)
(* C14  The registry is constructed once per process: with several threads *)
(* calling from_string before it exists the closure runs once, one thread  *)
(* at most runs it, no thread matches against anything but the completed   *)
(* vector, and every call that returns has matched against that vector.    *)
(***************************************************************************)
C14_ConstructedOnce ==
  /\ constructions <= 1
  /\ Cardinality({t \in Threads : threads[t] = "building"}) <= 1
  /\ \A t \in Threads :
       threads[t] = "matching" =>
         /\ REGEXES.state = "ready"
         /\ Len(REGEXES.vec) = Len(variants)
  /\ REGEXES.state = "ready" =>
       constructions = 1 /\ REGEXES = lazy_force(derived.arms)
  /\ (last.thread # 0 /\ last.result.kind # "Panic") =>
       last.result = from_string(derived.arms, lazy_force(derived.arms).vec,
                                 last.string)

C14_Witness ==
  /\ constructions = 1
  /\ REGEXES.state = "ready"
  /\ \A t \in Threads : threads[t] = "matching"
  /\ last = NoCall

(***************************************************************************)
(* C15  Once constructed the registry is never changed by a call of        *)
(* from_string: its i-th pattern is the one compiled from the template of  *)
(* the i-th declared variant, a match on it constructs that variant, and   *)
(* no step of any caller alters the vector.                                *)
(***************************************************************************)
\* the pattern of the i-th declared variant, compiled on its own
PatternOf(i) == regex_new(impl_variant(variants[i]).regex).items

C15_RegistryFixedInDeclarationOrder ==
  /\ [](REGEXES.state = "ready" =>
          /\ Len(REGEXES.vec) = Len(variants)
          /\ \A i \in 1..Len(variants) : REGEXES.vec[i] = PatternOf(i)
          /\ (last.thread # 0 /\ last.result.kind = "Some") =>
               \E i \in 1..Len(variants) :
                 /\ last.result.variant = variants[i].ident
                 /\ is_match(PatternOf(i), last.string)
                 /\ \A j \in 1..(i - 1) : ~is_match(PatternOf(j), last.string))
  /\ [][REGEXES.state = "ready" =>
          /\ REGEXES' = REGEXES
          /\ variants' = variants
          /\ derived' = derived]_vars

C15_Witness ==
  /\ REGEXES.state = "ready"
  /\ last.thread = 1 /\ last.result.kind = "Some"
  /\ \A t \in Threads : threads[t] = "matching"

(***************************************************************************)
(* C16  Captured text goes to the fields by placeholder name or index, not *)
(* by its place in the text: for a variant of the shipped enum whose       *)
(* placeholders stand in another order than its fields are declared        *)
(* (IndexExists, FieldCheck), every field gets the text found at its own   *)
(* placeholder.                                                            *)
(***************************************************************************)
\* two placeholders of the template stand in the opposite order of the
\* fields they name
OutOfOrder(v) ==
  \E k, l \in 1..Len(Tokens(v.tpl, 1)) :
    /\ k < l
    /\ FieldOf(v.fields, Tokens(v.tpl, 1)[k]) > FieldOf(v.fields, Tokens(v.tpl, 1)[l])

NoLineFeed(value) == \A k \in 1..Len(value) : value[k] # "\n"

C16_FieldsByNameNotPosition ==
  (/\ Returned /\ sent.valid
   /\ sent.variant \in {"IndexExists", "FieldCheck"}
   /\ \A k \in 1..Len(sent.fields) : NoLineFeed(sent.fields[k]))
    => /\ OutOfOrder(variants[SentIndex])
       /\ result = Some(sent.variant, sent.fields)

C16_Witness ==
  /\ Returned /\ sent.valid
  /\ sent.variant = "IndexExists"
  /\ sent.fields[1] # <<>> /\ sent.fields[2] = <<>> /\ sent.fields[3] = <<>>
  /\ result = Some("IndexExists", sent.fields)

(***************************************************************************)
(* Notions the properties of the query builder are stated with             *)
(***************************************************************************)
\* build has returned
QueryBuilt == pc = "built"

\* the first maximal run of word characters and dots of a text, the empty
\* text when it has none
FirstRun(s) ==
  LET in == {k \in 1..Len(s) : s[k] \in WordChars \cup {"."}}
  IN  IF in = {} THEN <<>>
      ELSE LET a == CHOOSE k \in in : \A m \in in : k <= m
               b == CHOOSE k \in a..Len(s) :
                      /\ a..k \subseteq in
                      /\ k + 1 \notin in
           IN  SubSeq(s, a, b)

\* a list under an operator that is not an array operator
IsIgnoredList(f) ==
  f.value.tag = "EscapedList" /\ f.operator \notin {"ContainsAny", "Inside"}

\* the filters that stay, in the order they were supplied, under the key
\* they are written with
Retained(filters) ==
  LET stays(f) == FirstRun(f.key) # <<>> /\ ~IsIgnoredList(f)
      seq == SelectSeq(filters, stays)
  IN  [n \in 1..Len(seq) |-> [seq[n] EXCEPT !.key = FirstRun(seq[n].key)]]

\* where pat first occurs in text at or after from, Len(text) + 1 when nowhere
FindSub(text, pat, from) ==
  LET p == First(from, Len(text) - Len(pat) + 1,
                 LAMBDA k : SubSeq(text, k, k + Len(pat) - 1) = pat)
  IN  IF p > Len(text) - Len(pat) + 1 THEN Len(text) + 1 ELSE p

\* the pieces of a text between the occurrences of sep
RECURSIVE Split(_, _)
Split(text, sep) ==
  IF text = <<>> THEN <<>>
  ELSE LET p == FindSub(text, sep, 1)
       IN  IF p > Len(text) THEN <<text>>
           ELSE <<SubSeq(text, 1, p - 1)>>
                \o Split(SubSeq(text, p + Len(sep), Len(text)), sep)

\* the conditions of a query: what stands between WHERE and the next clause,
\* cut at every AND
Conditions(text) ==
  LET w == FindSub(text, <<" ", "W", "H", "E", "R", "E", " ">>, 1)
      start == w + 7
      ends == {FindSub(text, <<" ", "O", "R", "D", "E", "R", " ", "B", "Y", " ">>, start),
               FindSub(text, <<" ", "L", "I", "M", "I", "T", " ">>, start),
               FindSub(text, <<" ", "S", "T", "A", "R", "T", " ">>, start)}
      end == CHOOSE e \in ends : \A o \in ends : e <= o
  IN  IF w > Len(text) THEN <<>>
      ELSE Split(SubSeq(text, start, end - 1), <<" ", "A", "N", "D", " ">>)

IsCondition(c) == \E n \in 1..Len(Conditions(query.text)) : Conditions(query.text)[n] = c

\* "<key> <operator> " of a filter
ConditionHead(f) == f.key \o <<" ">> \o Operator_fmt(f.operator) \o <<" ">>

\* the filters with a value that is bound to a variable
Bound(filters) == SelectSeq(Retained(filters), LAMBDA f : f.value.tag # "Unsafe")

(***************************************************************************)
(* C17  After build, every retained filter with an Escaped value stands in *)
(* the query as "<key> <operator> $<variable>" with that variable bound to *)
(* the value of the filter in the returned map; every retained filter with *)
(* an Unsafe value stands in the query with its value written out, and the *)
(* map has no entry but those of the other filters.                        *)
(***************************************************************************)
C17_EscapedBoundUnsafeVerbatim ==
  QueryBuilt =>
    /\ \A n \in 1..Len(Retained(opts.filters)) :
         LET f == Retained(opts.filters)[n]
         IN  CASE f.value.tag = "Escaped" ->
                    \E v \in DOMAIN query.variables :
                      /\ IsCondition(ConditionHead(f) \o <<"$">> \o v)
                      /\ query.variables[v] = f.value
               [] f.value.tag = "Unsafe" ->
                    IsCondition(ConditionHead(f) \o FilterValueKind_fmt(f.value.value))
               [] OTHER -> TRUE
    /\ \A v \in DOMAIN query.variables :
         \E n \in 1..Len(Bound(opts.filters)) :
           query.variables[v] = Bound(opts.filters)[n].value
    /\ Cardinality(DOMAIN query.variables) <= Len(Bound(opts.filters))

\* the options with every filter key, expansion alias and order_by column
\* cut down to its first run, where it has one
FirstRunOr(s) == IF FirstRun(s) = <<>> THEN s ELSE FirstRun(s)

Clean(o) ==
  [o EXCEPT
     !.filters = [n \in 1..Len(o.filters) |->
                    [o.filters[n] EXCEPT !.key = FirstRunOr(o.filters[n].key)]],
     !.expansions = [n \in 1..Len(o.expansions) |->
                       [o.expansions[n] EXCEPT !.key = FirstRunOr(o.expansions[n].key)]],
     !.order_by = IF o.order_by.some THEN SomeStr(FirstRunOr(o.order_by.value))
                  ELSE o.order_by]

\* the text holds pat, and what follows it is the end, a blank or a comma
HoldsWord(text, pat) ==
  \E p \in 1..(Len(text) - Len(pat) + 1) :
    /\ SubSeq(text, p, p + Len(pat) - 1) = pat
    /\ p + Len(pat) <= Len(text) => text[p + Len(pat)] \in {" ", ","}

\* the characters of the supplied keys that are no word characters or dots
\* and that build writes nowhere of its own
ForeignChars == {"\"", ";"}

(***************************************************************************)
(* C18  The query build returns is the query of the options whose filter   *)
(* keys, expansion aliases and order_by column are cut down to their first *)
(* maximal run of word characters and dots: the expansion stands under     *)
(* that run, the ORDER BY names that run, every condition begins with the  *)
(* run of a filter key, and no quote or semicolon of a key is in the text. *)
(***************************************************************************)
C18_KeysSanitized ==
  QueryBuilt =>
    /\ query \in BuildOutcomes(Clean(opts))
    /\ \A n \in 1..Len(opts.expansions) :
         FirstRun(opts.expansions[n].key) # <<>> =>
           HoldsWord(query.text, <<")", " ", "A", "S", " ">> \o FirstRun(opts.expansions[n].key))
    /\ (opts.order_by.some /\ FirstRun(opts.order_by.value) # <<>>) =>
         HoldsWord(query.text, <<" ", "O", "R", "D", "E", "R", " ", "B", "Y", " ">>
                               \o FirstRun(opts.order_by.value))
    /\ \A c \in 1..Len(Conditions(query.text)) :
         \E n \in 1..Len(opts.filters) :
           /\ FirstRun(opts.filters[n].key) # <<>>
           /\ SubSeq(Conditions(query.text)[c], 1, Len(FirstRun(opts.filters[n].key)) + 1)
                = FirstRun(opts.filters[n].key) \o <<" ">>
    /\ \A k \in 1..Len(query.text) : query.text[k] \notin ForeignChars

\* build has returned for a filter key, an alias and an order_by column that
\* all hold a quote or a semicolon after their first run
C18_Witness ==
  /\ QueryBuilt
  /\ opts.filters # <<>> /\ opts.filters[1].key = <<"\"", "k", ";", "x">>
  /\ Len(opts.expansions) = 2
  /\ opts.expansions[2].key = <<"p", " ", "=", "\"", ";", "q">>
  /\ opts.order_by = SomeStr(<<"i", "d", " ", ";", "x">>)
  /\ Conditions(query.text) = << <<"k", " ", "=", " ", "$", "k">> >>
  /\ HoldsWord(query.text, <<"A", "S", " ", "p">>)
  /\ HoldsWord(query.text, <<"B", "Y", " ", "i", "d">>)

\* the retained filters written with the key k, in the order supplied
SameKey(filters, k) == SelectSeq(Retained(filters), LAMBDA f : f.key = k)

\* the variable of the i-th filter of a key, i from 0: the key with its dots
\* as underscores, followed by __i for i >= 1
VariableOf(k, i) ==
  IF i = 0 THEN to_variable_ident(k)
  ELSE to_variable_ident(k) \o <<"_", "_">> \o usize_fmt(i)

(***************************************************************************)
(* C19  After build, for every key k that several retained filters share,  *)
(* each of these filters stands in the query: taken in the order supplied, *)
(* the first refers to the variable k and the i-th after it to k__i, and   *)
(* the returned map binds that variable to the value of that same filter   *)
(* (a filter with an Unsafe value stands with its value written out).      *)
(***************************************************************************)
C19_SameKeyEnumerated ==
  QueryBuilt =>
    \A n \in 1..Len(opts.filters) :
      LET k == FirstRun(opts.filters[n].key)
          same == SameKey(opts.filters, k)
      IN  Len(same) >= 2 =>
            \A i \in 1..Len(same) :
              IF same[i].value.tag = "Unsafe"
              THEN IsCondition(ConditionHead(same[i])
                               \o FilterValueKind_fmt(same[i].value.value))
              ELSE /\ IsCondition(ConditionHead(same[i]) \o <<"$">> \o VariableOf(k, i - 1))
                   /\ VariableOf(k, i - 1) \in DOMAIN query.variables
                   /\ query.variables[VariableOf(k, i - 1)] = same[i].value

\* the options without the lists under an operator that is no array operator
WithoutIgnoredLists(o) ==
  [o EXCEPT !.filters = SelectSeq(o.filters, LAMBDA f : ~IsIgnoredList(f))]

(***************************************************************************)
(* C20  After build, the conditions of the query and the returned map are  *)
(* those of the same options without their list-valued filters under Eq,   *)
(* Ne, Gt, Ge, Lt or Le: such a filter adds no condition and no variable   *)
(* and leaves the conditions and variables of the other filters as they    *)
(* are; a condition on a list is one under ContainsAny or Inside.          *)
(***************************************************************************)
C20_ListOnlyUnderArrayOperators ==
  QueryBuilt =>
    /\ \E q \in BuildOutcomes(WithoutIgnoredLists(opts)) :
         /\ Conditions(query.text) = Conditions(q.text)
         /\ query.variables = q.variables
    /\ \A v \in DOMAIN query.variables :
         query.variables[v].tag = "EscapedList" =>
           \E n \in 1..Len(opts.filters) :
             LET f == [opts.filters[n] EXCEPT !.key = FirstRun(opts.filters[n].key)]
             IN  /\ f.value = query.variables[v]
                 /\ f.operator \in {"ContainsAny", "Inside"}
                 /\ IsCondition(ConditionHead(f) \o <<"$">> \o v)

\* build has returned for a list under Ge between two filters of the same
\* key, which are written as the first and the second filter of that key
C20_Witness ==
  /\ QueryBuilt
  /\ Len(opts.filters) = 3
  /\ opts.filters[1] = Filter(<<"k">>, "Eq", FilterEscaped(KindInt(1)))
  /\ opts.filters[2] = Filter(<<"k">>, "Ge", FilterEscapedList(<<KindInt(5), KindInt(6)>>))
  /\ opts.filters[3] = Filter(<<"k">>, "Ge", FilterEscaped(KindInt(2)))
  /\ Conditions(query.text) = << <<"k", " ", "=", " ", "$", "k">>,
                                 <<"k", " ", ">", "=", " ", "$", "k", "_", "_", "1">> >>
  /\ DOMAIN query.variables = { <<"k">>, <<"k", "_", "_", "1">> }

\* the filters are written with keys that differ from one another
DistinctKeys(filters) ==
  \A a, b \in 1..Len(Retained(filters)) :
    Retained(filters)[a].key = Retained(filters)[b].key => a = b

\* the ways to supply the same filters in another order
Reorderings(filters) ==
  {[n \in 1..Len(filters) |-> filters[order[n]]] : order \in Orders(1..Len(filters))}

\* a sequence of texts ascends
Ascending(v) == \A a, b \in 1..Len(v) : a < b => str_le(v[a], v[b])

(***************************************************************************)
(* C21  After build, the conditions between WHERE and the next clause      *)
(* stand in ascending order of their text with " AND " between them; and   *)
(* when the filters are written with distinct keys there is one condition  *)
(* per retained filter and build returns the same text for the same        *)
(* filters supplied in any other order.                                    *)
(***************************************************************************)
C21_ConditionsSortedAnyOrder ==
  QueryBuilt =>
    /\ Ascending(Conditions(query.text))
    /\ DistinctKeys(opts.filters) =>
         /\ Len(Conditions(query.text)) = Len(Retained(opts.filters))
         /\ \A f \in Reorderings(opts.filters) :
              \A q \in BuildOutcomes([opts EXCEPT !.filters = f]) :
                q.text = query.text

\* build has returned for three filters with distinct keys that were not
\* supplied in the order of their conditions
C21_Witness ==
  /\ QueryBuilt
  /\ Len(opts.filters) = 3
  /\ opts.filters[1].key = <<"k">>
  /\ opts.filters[2].key = <<"a", "_", "b">>
  /\ opts.filters[3].key = <<"a", ".", "b">>
  /\ Len(Conditions(query.text)) = 3
  /\ SubSeq(Conditions(query.text)[1], 1, 3) = <<"a", ".", "b">>
  /\ SubSeq(Conditions(query.text)[3], 1, 2) = <<"k", " ">>

\* the arguments build was called with
TableName == CHOOSE t \in TableNames : TRUE
UnsafeColumns == CHOOSE c \in ColumnLists : TRUE

\* ",(<expr>) AS <alias>" for the expansions from the n-th on, an expansion
\* whose alias has no word character being left out
RECURSIVE ExpansionsText(_, _)
ExpansionsText(expansions, n) ==
  IF n > Len(expansions) THEN <<>>
  ELSE (IF FirstRun(expansions[n].key) = <<>> THEN <<>>
        ELSE <<",", "(">> \o expansions[n].expansion \o <<")", " ", "A", "S", " ">>
             \o FirstRun(expansions[n].key))
       \o ExpansionsText(expansions, n + 1)

\* " ORDER BY <column>" and the direction, when there is a column
OrderByText(o) ==
  IF o.order_by.some /\ FirstRun(o.order_by.value) # <<>>
  THEN <<" ", "O", "R", "D", "E", "R", " ", "B", "Y", " ">> \o FirstRun(o.order_by.value)
       \o (CASE o.order_dir = "Asc" -> <<" ", "A", "S", "C">>
             [] o.order_dir = "Desc" -> <<" ", "D", "E", "S", "C">>
             [] OTHER -> <<>>)
  ELSE <<>>

\* " WHERE " and the conditions, when a filter stays
WhereText(o, conditions) ==
  IF Retained(o.filters) = <<>> THEN <<>>
  ELSE <<" ", "W", "H", "E", "R", "E", " ">> \o join(conditions, <<" ", "A", "N", "D", " ">>)

(***************************************************************************)
(* C22  After build, the text is "SELECT ", the columns with commas, one   *)
(* ",(<expr>) AS <alias>" per expansion in the given order, " FROM " and   *)
(* the table, then the WHERE clause with the conditions, the ORDER BY      *)
(* clause, " LIMIT <n>" exactly when limit is set and " START <m>" exactly *)
(* when offset is set, a single blank before each and nothing else: what   *)
(* is absent leaves no trace.                                              *)
(***************************************************************************)
C22_TextLayout ==
  QueryBuilt =>
    query.text =
      <<"S", "E", "L", "E", "C", "T", " ">> \o join(UnsafeColumns, <<",">>)
      \o ExpansionsText(opts.expansions, 1)
      \o <<" ", "F", "R", "O", "M", " ">> \o TableName
      \o WhereText(opts, Conditions(query.text))
      \o OrderByText(opts)
      \o (IF opts.limit.some
          THEN <<" ", "L", "I", "M", "I", "T", " ">> \o usize_fmt(opts.limit.value)
          ELSE <<>>)
      \o (IF opts.offset.some
          THEN <<" ", "S", "T", "A", "R", "T", " ">> \o usize_fmt(opts.offset.value)
          ELSE <<>>)

\* the ORDER BY clause up to its column, when build can write one
OrderByColumn(o) ==
  <<" ", "O", "R", "D", "E", "R", " ", "B", "Y", " ">> \o FirstRun(o.order_by.value)

HasAsc(text) == HoldsWord(text, <<" ", "A", "S", "C">>)
HasDesc(text) == HoldsWord(text, <<" ", "D", "E", "S", "C">>)

(***************************************************************************)
(* C23  After build, a direction stands only directly after the ORDER BY   *)
(* clause and only the one order_dir names: without order_by the text has  *)
(* neither ASC nor DESC nor ORDER BY, whatever order_dir is; with order_by *)
(* and no order_dir it has "ORDER BY <column>" and no direction; with both *)
(* it has "ORDER BY <column> ASC" or "ORDER BY <column> DESC".             *)
(***************************************************************************)
C23_DirectionOnlyAfterOrderBy ==
  QueryBuilt =>
    LET text == query.text
        written == opts.order_by.some /\ FirstRun(opts.order_by.value) # <<>>
    IN  /\ ~opts.order_by.some =>
             /\ ~HasAsc(text)
             /\ ~HasDesc(text)
             /\ ~HoldsWord(text, <<"O", "R", "D", "E", "R", " ", "B", "Y">>)
        /\ HasAsc(text) =>
             /\ opts.order_dir = "Asc"
             /\ HoldsWord(text, OrderByColumn(opts) \o <<" ", "A", "S", "C">>)
        /\ HasDesc(text) =>
             /\ opts.order_dir = "Desc"
             /\ HoldsWord(text, OrderByColumn(opts) \o <<" ", "D", "E", "S", "C">>)
        /\ written => HoldsWord(text, OrderByColumn(opts))
        /\ written /\ opts.order_dir = "None" => ~HasAsc(text) /\ ~HasDesc(text)
        /\ written /\ opts.order_dir = "Asc" => HasAsc(text)
        /\ written /\ opts.order_dir = "Desc" => HasDesc(text)

\* build has run on options that name a direction and no column, and a limit
C23_Witness ==
  /\ QueryBuilt
  /\ ~opts.order_by.some
  /\ opts.order_dir = "Desc"
  /\ opts.limit.some

\* a key with every dot replaced by an underscore
Underscored(k) == [n \in 1..Len(k) |-> IF k[n] = "." THEN "_" ELSE k[n]]

HasDot(k) == \E n \in 1..Len(k) : k[n] = "."

\* the n-th filter is the only one written with its key
OnlyOfItsKey(filters, n) ==
  \A m \in 1..Len(filters) :
    FirstRun(filters[m].key) = FirstRun(filters[n].key) => m = n

\* the n-th filter has a dotted key of its own and a value that is bound
DottedBound(filters, n) ==
  /\ HasDot(FirstRun(filters[n].key))
  /\ OnlyOfItsKey(filters, n)
  /\ filters[n].value.tag # "Unsafe"
  /\ ~IsIgnoredList(filters[n])

(***************************************************************************)
(* C24  After build, every filter with a bound value whose key holds a dot *)
(* (and is the key of no other filter) stands in the query with its key as *)
(* written, dots kept, on the left of the operator and with the variable   *)
(* named by the key with each dot turned into an underscore on the right,  *)
(* and the returned map has the value of that filter under that name.      *)
(***************************************************************************)
C24_DottedKeyUnderscoreVariable ==
  QueryBuilt =>
    \A n \in 1..Len(opts.filters) :
      DottedBound(opts.filters, n) =>
        LET f == opts.filters[n]
            k == FirstRun(f.key)
        IN  /\ IsCondition(k \o <<" ">> \o Operator_fmt(f.operator) \o <<" ", "$">>
                            \o Underscored(k))
            /\ Underscored(k) \in DOMAIN query.variables
            /\ query.variables[Underscored(k)] = f.value

\* the conditions that refer to a variable
Referring(text) ==
  SelectSeq(Conditions(text), LAMBDA c : \E p \in 1..Len(c) : c[p] = "$")

(***************************************************************************)
(* C26  After build, every condition that refers to a variable is the      *)
(* condition of a retained filter with a bound value, written with a       *)
(* variable the returned map binds to the value of that filter; and the    *)
(* retained filters with bound values, the conditions that refer to a      *)
(* variable and the entries of the map are equally many, so that no two    *)
(* such filters share a variable, whatever the keys are.                   *)
(***************************************************************************)
C26_VariablesOneToOne ==
  QueryBuilt =>
    /\ \A c \in 1..Len(Referring(query.text)) :
         \E n \in 1..Len(Bound(opts.filters)) :
           \E v \in DOMAIN query.variables :
             /\ Referring(query.text)[c] = ConditionHead(Bound(opts.filters)[n]) \o <<"$">> \o v
             /\ query.variables[v] = Bound(opts.filters)[n].value
    /\ Len(Referring(query.text)) = Len(Bound(opts.filters))
    /\ Cardinality(DOMAIN query.variables) = Len(Bound(opts.filters))

\* the separator of the templates with several placeholders
Separator == <<"a">>

\* the placeholders of the tokens with the separator between them
RECURSIVE SeparatedBy(_, _)
SeparatedBy(tokens, sep) ==
  IF Len(tokens) = 1 THEN <<"{">> \o tokens[1] \o <<"}">>
  ELSE <<"{">> \o tokens[1] \o <<"}">> \o sep \o SeparatedBy(Tail(tokens), sep)

\* the template is two or more placeholders with the separator between them
IsSeparated(tpl, sep) ==
  /\ Len(Tokens(tpl, 1)) >= 2
  /\ tpl = SeparatedBy(Tokens(tpl, 1), sep)

\* where the separator stands in a text, and the j-th of these places
Occurrences(text, sep) ==
  {p \in 1..(Len(text) - Len(sep) + 1) : SubSeq(text, p, p + Len(sep) - 1) = sep}
NthOccurrence(text, sep, j) ==
  CHOOSE p \in Occurrences(text, sep) :
    Cardinality({q \in Occurrences(text, sep) : q < p}) = j - 1

\* the text of the f-th of n placeholders when the n - 1 separators of the
\* template are the last n - 1 occurrences of the separator in the text
WidestSpan(text, sep, n, f) ==
  LET m == Cardinality(Occurrences(text, sep))
      at(j) == NthOccurrence(text, sep, m - (n - 1) + j)
      from == IF f = 1 THEN 1 ELSE at(f - 1) + Len(sep)
      to == IF f = n THEN Len(text) ELSE at(f) - 1
  IN  SubSeq(text, from, to)

(***************************************************************************)
(* C25  Captures are greedy: for a variant whose template is n >= 2        *)
(* placeholders with a separator between them and a text in which the      *)
(* separator stands at least n times, from_string returns the variant, the *)
(* separators of the template being the last n - 1 occurrences in the      *)
(* text: the first field is the text before them, each further field the   *)
(* text between two of them, and the last field all the rest of the text.  *)
(***************************************************************************)
C25_GreedyCaptures ==
  (/\ Returned
   /\ Len(variants) = 1
   /\ IsSeparated(variants[1].tpl, Separator)
   /\ Cardinality(Occurrences(string, Separator)) >= variants[1].fields.n)
    => /\ result.kind = "Some"
       /\ \A f \in 1..variants[1].fields.n :
            result.fields[f] = WidestSpan(string, Separator, variants[1].fields.n, f)

\* the name of the group of a placeholder token
GroupName(fields, token) ==
  IF fields.kind = "Unnamed" THEN <<"_">> \o token ELSE token

\* the pattern read off the template: every brace pair around a run of word
\* characters is a group, all other text stands for itself
RECURSIVE ExpectedItems(_, _, _)
ExpectedItems(tpl, fields, i) ==
  LET k == First(i, Len(tpl), LAMBDA p : PlaceholderAt(tpl, p) # 0)
      before == IF k > i THEN <<Lit(SubSeq(tpl, i, k - 1))>> ELSE <<>>
  IN  IF k > Len(tpl) THEN before
      ELSE before
           \o <<Cap(GroupName(fields, SubSeq(tpl, k + 1, PlaceholderAt(tpl, k) - 2)))>>
           \o ExpectedItems(tpl, fields, PlaceholderAt(tpl, k))

\* the tokens are what the shape asks for
ShapeFits(tokens, fields) ==
  CASE fields.kind = "Unit" -> tokens = <<>>
    [] fields.kind = "Unnamed" ->
         /\ Len(tokens) = fields.n
         /\ \A k \in 1..Len(tokens) :
              parse_usize(tokens[k]) >= 0 /\ parse_usize(tokens[k]) < fields.n
    [] OTHER ->
         {tokens[k] : k \in 1..Len(tokens)}
           = {fields.names[k] : k \in 1..Len(fields.names)}

\* the template with the text v at each of its placeholders
Filled(tpl, fields, v) == Render(tpl, fields, [f \in 1..fields.n |-> v], 1)

(***************************************************************************)
(* C27  For a variant whose template repeats no placeholder: the tokens    *)
(* extracted are those of the brace pairs around a non-empty run of word   *)
(* characters, left to right; the derive accepts the variant exactly when  *)
(* these tokens fit its fields, whatever other braces the template holds;  *)
(* the pattern has one group per such token and every other character of   *)
(* the template, braces included, as literal text; from_string returns the *)
(* variant only for a text that holds these literal stretches as they are  *)
(* written, and does return it for the template text itself with the       *)
(* placeholder filled.                                                     *)
(***************************************************************************)
C27_OnlyWordBracesArePlaceholders ==
  (Len(variants) = 1 /\ NoRepeatedField(variants[1].tpl)) =>
    LET tpl == variants[1].tpl
        fields == variants[1].fields
        items == ExpectedItems(tpl, fields, 1)
    IN  /\ captures_of(escape(tpl)) = Tokens(tpl, 1)
        /\ Derived => (derived.ok <=> ShapeFits(Tokens(tpl, 1), fields))
        /\ Built => REGEXES.vec[1] = items
        /\ (Returned /\ result.kind = "Some") =>
             \A k \in 1..Len(items) :
               items[k].t = "lit" => Occurrences(string, items[k].s) # {}
        /\ (Returned /\ fields.n <= 1) =>
             \A v \in {<<>>, <<"a">>} :
               string = Filled(tpl, fields, v) =>
                 result = Some("1", [f \in 1..fields.n |-> v])

\* from_string has returned the variant of the template {a-b}{0} for the
\* text {a-b}a, the braces around the hyphen matched as they are
C27_Witness ==
  /\ Returned
  /\ variants[1].tpl = <<"{", "a", "-", "b", "}", "{", "0", "}">>
  /\ variants[1].fields = Unnamed(1)
  /\ string = <<"{", "a", "-", "b", "}", "a">>
  /\ result = Some("1", << <<"a">> >>)

====
